---- MODULE Spec2Model ----
(***************************************************************************)
(* sqlmask: reversible masking of SQL text.                                *)
(*                                                                         *)
(* A Python str is modelled as a sequence of one-character strings, a dict *)
(* as the sequence of its [k, v] items in insertion order (Python dicts    *)
(* keep insertion order, and decode depends on it).                        *)
(***************************************************************************)
EXTENDS Integers, Sequences, FiniteSets, TLC

----------------------------------------------------------------------------
(* Characters and character classes used by the regular expressions.       *)

LowerLetters == <<"a","b","c","d","e","f","g","h","i","j","k","l","m",
                  "n","o","p","q","r","s","t","u","v","w","x","y","z">>
UpperLetters == <<"A","B","C","D","E","F","G","H","I","J","K","L","M",
                  "N","O","P","Q","R","S","T","U","V","W","X","Y","Z">>
DigitChars == <<"0","1","2","3","4","5","6","7","8","9">>

Range(f) == { f[i] : i \in DOMAIN f }

IsLetter(c) == c \in Range(LowerLetters) \cup Range(UpperLetters)
IsDigit(c) == c \in Range(DigitChars)
\* \w of the re module, on the ASCII characters of the model
IsWordChar(c) == IsLetter(c) \/ IsDigit(c) \/ c = "_"
\* \s of the re module / str.isspace
IsSpace(c) == c \in {" ", "\n", "\t", "\r", "\f"}
\* the character class of the PUNCTUATION pattern
PunctuationChars ==
  {".", ",", ";", ":", "(", ")", "=", "<", ">", "+", "-", "*", "/", "!", "?",
   "@", "#", "$", "%", "^", "&", "[", "]", "{", "}", "|", "\\"}

\* str.upper, one character
UpperChar(c) ==
  IF \E i \in DOMAIN LowerLetters : LowerLetters[i] = c
  THEN UpperLetters[CHOOSE i \in DOMAIN LowerLetters : LowerLetters[i] = c]
  ELSE c
\* str.upper
UpperStr(s) == [i \in 1..Len(s) |-> UpperChar(s[i])]

----------------------------------------------------------------------------
(* str helpers.                                                            *)

\* s[i:] with a 1-based i
DropTo(s, i) == SubSeq(s, i, Len(s))
\* s.startswith(p) at 1-based position i
MatchesAt(s, p, i) ==
  /\ i >= 1
  /\ i + Len(p) - 1 <= Len(s)
  /\ \A j \in 1..Len(p) : s[i + j - 1] = p[j]
StartsWith(s, p) == MatchesAt(s, p, 1)
EndsWith(s, p) == Len(p) <= Len(s) /\ MatchesAt(s, p, Len(s) - Len(p) + 1)
\* least position >= i at which p occurs in s, 0 when there is none (str.find)
FindFrom(s, p, i) ==
  LET hits == { j \in i..(Len(s) - Len(p) + 1) : MatchesAt(s, p, j) }
  IN  IF hits = {} THEN 0 ELSE CHOOSE j \in hits : \A h \in hits : j <= h
\* p in s
Contains(s, p) == FindFrom(s, p, 1) # 0

\* str.replace(old, new) for a non-empty old: every non-overlapping
\* occurrence, left to right
RECURSIVE Replace(_, _, _)
Replace(s, old, new) ==
  LET j == FindFrom(s, old, 1)
  IN  IF j = 0 THEN s
      ELSE SubSeq(s, 1, j - 1) \o new \o Replace(DropTo(s, j + Len(old)), old, new)

\* str.count(p) for a non-empty p: non-overlapping occurrences
RECURSIVE Count(_, _)
Count(s, p) ==
  LET j == FindFrom(s, p, 1)
  IN  IF j = 0 THEN 0 ELSE 1 + Count(DropTo(s, j + Len(p)), p)

\* str.split(sep) for a one-character sep
RECURSIVE Split(_, _)
Split(s, sep) ==
  LET j == FindFrom(s, <<sep>>, 1)
  IN  IF j = 0 THEN <<s>>
      ELSE <<SubSeq(s, 1, j - 1)>> \o Split(DropTo(s, j + 1), sep)

\* sep.join(parts)
RECURSIVE Join(_, _)
Join(parts, sep) ==
  IF parts = <<>> THEN <<>>
  ELSE IF Len(parts) = 1 THEN parts[1]
  ELSE parts[1] \o sep \o Join(Tail(parts), sep)

\* s.strip(chars)
RECURSIVE StripChars(_, _)
StripChars(s, chars) ==
  IF s = <<>> THEN s
  ELSE IF s[1] \in chars THEN StripChars(Tail(s), chars)
  ELSE IF s[Len(s)] \in chars THEN StripChars(SubSeq(s, 1, Len(s) - 1), chars)
  ELSE s

\* str(n) of a non-negative int, as the f-strings format the counter
RECURSIVE Dec(_)
Dec(n) == IF n < 10 THEN <<DigitChars[n + 1]>>
          ELSE Dec(n \div 10) \o <<DigitChars[(n % 10) + 1]>>

DigitValue(c) == (CHOOSE i \in DOMAIN DigitChars : DigitChars[i] = c) - 1
RECURSIVE DigitsValue(_)
DigitsValue(s) == IF s = <<>> THEN 0
                  ELSE 10 * DigitsValue(SubSeq(s, 1, Len(s) - 1)) + DigitValue(s[Len(s)])
\* int(s): the value of a string of decimal digits, -1 standing for the
\* ValueError raised on the empty string and on any other character of the
\* model's alphabet
ParseInt(s) ==
  IF s # <<>> /\ \A i \in 1..Len(s) : IsDigit(s[i]) THEN DigitsValue(s) ELSE -1

----------------------------------------------------------------------------
(* The keyword table, SQLMasker._keywords.                                 *)

Keywords ==
  {
    <<"S","E","L","E","C","T">>, <<"F","R","O","M">>, <<"W","H","E","R","E">>, <<"A","N","D">>, <<"O","R">>, <<"I","N","S","E","R","T">>, <<"U","P","D","A","T","E">>, <<"D","E","L","E","T","E">>,
    <<"J","O","I","N">>, <<"L","E","F","T">>, <<"R","I","G","H","T">>, <<"I","N","N","E","R">>, <<"O","U","T","E","R">>, <<"C","R","O","S","S">>, <<"G","R","O","U","P">>, <<"O","R","D","E","R">>,
    <<"B","Y">>, <<"H","A","V","I","N","G">>, <<"L","I","M","I","T">>, <<"O","F","F","S","E","T">>, <<"A","S">>, <<"O","N">>, <<"V","A","L","U","E","S">>, <<"I","N","T","O">>, <<"S","E","T">>,
    <<"W","I","T","H">>, <<"O","V","E","R">>, <<"P","A","R","T","I","T","I","O","N">>, <<"D","E","S","C">>, <<"A","S","C">>, <<"C","A","S","E">>, <<"W","H","E","N">>, <<"T","H","E","N">>, <<"E","L","S","E">>, <<"E","N","D">>,
    <<"D","I","S","T","I","N","C","T">>, <<"C","O","U","N","T">>, <<"S","U","M">>, <<"A","V","G">>, <<"M","I","N">>, <<"M","A","X">>, <<"N","O","W">>, <<"T","R","U","E">>, <<"F","A","L","S","E">>,
    <<"S","T","R","I","N","G","_","A","G","G">>, <<"R","A","N","K">>, <<"I","N","T","E","R","V","A","L">>, <<"N","O","T">>, <<"N","U","L","L">>, <<"I","S">>, <<"I","N">>, <<"B","E","T","W","E","E","N">>,
    <<"C","R","E","A","T","E">>, <<"T","A","B","L","E">>, <<"D","R","O","P">>, <<"A","L","T","E","R">>, <<"A","D","D">>, <<"C","O","L","U","M","N">>, <<"P","R","I","M","A","R","Y">>, <<"K","E","Y">>,
    <<"F","O","R","E","I","G","N">>, <<"R","E","F","E","R","E","N","C","E","S">>, <<"I","N","D","E","X">>, <<"U","N","I","Q","U","E">>, <<"D","E","F","A","U","L","T">>, <<"C","A","S","C","A","D","E">>,
    <<"U","N","I","O","N">>, <<"I","N","T">>, <<"A","L","L">>, <<"P","I","V","O","T">>, <<"F","O","R">>, <<"Q","U","A","L","I","F","Y">>, <<"L","I","K","E">>,
    <<"I","N","T","6","4">>, <<"N","U","M","E","R","I","C">>, <<"F","L","O","A","T","6","4">>, <<"B","O","O","L">>, <<"S","T","R","I","N","G">>, <<"B","Y","T","E","S">>, <<"D","A","T","E">>,
    <<"D","A","T","E","T","I","M","E">>, <<"T","I","M","E">>, <<"T","I","M","E","S","T","A","M","P">>, <<"A","R","R","A","Y">>, <<"S","T","R","U","C","T">>, <<"G","E","O","G","R","A","P","H","Y">>,
    <<"J","S","O","N">>, <<"B","I","G","N","U","M","E","R","I","C">>, <<"I","N","T","E","R","V","A","L">>,
    <<"C","A","S","T">>, <<"S","A","F","E","_","C","A","S","T">>, <<"P","A","R","S","E","_","D","A","T","E">>, <<"P","A","R","S","E","_","T","I","M","E">>, <<"P","A","R","S","E","_","T","I","M","E","S","T","A","M","P">>,
    <<"F","O","R","M","A","T">>, <<"C","O","N","C","A","T">>, <<"S","U","B","S","T","R">>, <<"S","U","B","S","T","R","I","N","G">>, <<"T","R","I","M">>, <<"L","T","R","I","M">>, <<"R","T","R","I","M">>,
    <<"R","E","P","L","A","C","E">>, <<"R","E","G","E","X","P","_","E","X","T","R","A","C","T">>, <<"R","E","G","E","X","P","_","C","O","N","T","A","I","N","S">>, <<"R","E","G","E","X","P","_","R","E","P","L","A","C","E">>,
    <<"L","O","W","E","R">>, <<"U","P","P","E","R">>, <<"I","N","I","T","C","A","P">>, <<"L","P","A","D">>, <<"R","P","A","D">>, <<"L","E","F","T">>, <<"R","I","G","H","T">>,
    <<"C","H","A","R","_","L","E","N","G","T","H">>, <<"C","H","A","R","A","C","T","E","R","_","L","E","N","G","T","H">>, <<"L","E","N","G","T","H">>, <<"S","T","A","R","T","S","_","W","I","T","H">>, <<"E","N","D","S","_","W","I","T","H">>,
    <<"C","O","N","T","A","I","N","S">>, <<"O","C","T","E","T","_","L","E","N","G","T","H">>, <<"B","Y","T","E","_","L","E","N","G","T","H">>, <<"S","P","L","I","T">>, <<"A","R","R","A","Y","_","L","E","N","G","T","H">>,
    <<"A","R","R","A","Y","_","T","O","_","S","T","R","I","N","G">>, <<"G","E","N","E","R","A","T","E","_","A","R","R","A","Y">>, <<"G","E","N","E","R","A","T","E","_","D","A","T","E","_","A","R","R","A","Y">>,
    <<"A","R","R","A","Y","_","C","O","N","C","A","T">>, <<"A","R","R","A","Y","_","R","E","V","E","R","S","E">>, <<"A","R","R","A","Y">>, <<"U","N","N","E","S","T">>,
    <<"E","X","T","R","A","C","T">>, <<"D","A","T","E">>, <<"D","A","T","E","T","I","M","E">>, <<"T","I","M","E">>, <<"T","I","M","E","S","T","A","M","P">>,
    <<"C","U","R","R","E","N","T","_","D","A","T","E">>, <<"C","U","R","R","E","N","T","_","D","A","T","E","T","I","M","E">>, <<"C","U","R","R","E","N","T","_","T","I","M","E">>, <<"C","U","R","R","E","N","T","_","T","I","M","E","S","T","A","M","P">>,
    <<"D","A","T","E","_","A","D","D">>, <<"D","A","T","E","_","S","U","B">>, <<"D","A","T","E","_","D","I","F","F">>, <<"D","A","T","E","_","T","R","U","N","C">>, <<"D","A","T","E","_","F","R","O","M","_","U","N","I","X","_","D","A","T","E">>,
    <<"F","O","R","M","A","T","_","D","A","T","E">>, <<"P","A","R","S","E","_","D","A","T","E">>, <<"U","N","I","X","_","D","A","T","E">>,
    <<"D","A","T","E","T","I","M","E","_","A","D","D">>, <<"D","A","T","E","T","I","M","E","_","S","U","B">>, <<"D","A","T","E","T","I","M","E","_","D","I","F","F">>, <<"D","A","T","E","T","I","M","E","_","T","R","U","N","C">>,
    <<"F","O","R","M","A","T","_","D","A","T","E","T","I","M","E">>, <<"P","A","R","S","E","_","D","A","T","E","T","I","M","E">>,
    <<"T","I","M","E","_","A","D","D">>, <<"T","I","M","E","_","S","U","B">>, <<"T","I","M","E","_","D","I","F","F">>, <<"T","I","M","E","_","T","R","U","N","C">>,
    <<"F","O","R","M","A","T","_","T","I","M","E">>, <<"P","A","R","S","E","_","T","I","M","E">>,
    <<"T","I","M","E","S","T","A","M","P","_","A","D","D">>, <<"T","I","M","E","S","T","A","M","P","_","S","U","B">>, <<"T","I","M","E","S","T","A","M","P","_","D","I","F","F">>, <<"T","I","M","E","S","T","A","M","P","_","T","R","U","N","C">>,
    <<"F","O","R","M","A","T","_","T","I","M","E","S","T","A","M","P">>, <<"P","A","R","S","E","_","T","I","M","E","S","T","A","M","P">>, <<"U","N","I","X","_","S","E","C","O","N","D","S">>, <<"U","N","I","X","_","M","I","L","L","I","S">>,
    <<"T","I","M","E","S","T","A","M","P","_","S","E","C","O","N","D","S">>, <<"T","I","M","E","S","T","A","M","P","_","M","I","L","L","I","S">>,
    <<"A","B","S">>, <<"S","I","G","N">>, <<"I","S","_","I","N","F">>, <<"I","S","_","N","A","N">>, <<"I","E","E","E","_","D","I","V","I","D","E">>, <<"R","A","N","D">>,
    <<"R","O","U","N","D">>, <<"T","R","U","N","C">>, <<"C","E","I","L">>, <<"C","E","I","L","I","N","G">>, <<"F","L","O","O","R">>,
    <<"C","O","S">>, <<"C","O","S","H">>, <<"A","C","O","S">>, <<"A","C","O","S","H">>, <<"S","I","N">>, <<"S","I","N","H">>, <<"A","S","I","N">>, <<"A","S","I","N","H">>,
    <<"T","A","N">>, <<"T","A","N","H">>, <<"A","T","A","N">>, <<"A","T","A","N","H">>, <<"A","T","A","N","2">>,
    <<"D","I","V">>, <<"M","O","D">>, <<"P","O","W">>, <<"P","O","W","E","R">>, <<"S","Q","R","T">>, <<"C","B","R","T">>,
    <<"E","X","P">>, <<"L","N">>, <<"L","O","G">>, <<"L","O","G","1","0">>,
    <<"G","R","E","A","T","E","S","T">>, <<"L","E","A","S","T">>, <<"I","F">>, <<"I","F","N","U","L","L">>, <<"N","U","L","L","I","F">>, <<"C","O","A","L","E","S","C","E">>,
    <<"T","O","_","J","S","O","N","_","S","T","R","I","N","G">>, <<"F","R","O","M","_","J","S","O","N">>, <<"J","S","O","N","_","E","X","T","R","A","C","T">>, <<"J","S","O","N","_","E","X","T","R","A","C","T","_","S","C","A","L","A","R">>,
    <<"J","S","O","N","_","Q","U","E","R","Y">>, <<"J","S","O","N","_","V","A","L","U","E">>, <<"J","S","O","N","_","E","X","T","R","A","C","T","_","A","R","R","A","Y">>,
    <<"S","T","_","G","E","O","G","P","O","I","N","T">>, <<"S","T","_","M","A","K","E","L","I","N","E">>, <<"S","T","_","M","A","K","E","P","O","L","Y","G","O","N">>, <<"S","T","_","M","A","K","E","P","O","L","Y","G","O","N","O","R","I","E","N","T","E","D">>,
    <<"S","T","_","D","I","S","T","A","N","C","E">>, <<"S","T","_","D","W","I","T","H","I","N">>, <<"S","T","_","E","Q","U","A","L","S">>, <<"S","T","_","I","N","T","E","R","S","E","C","T","S">>, <<"S","T","_","C","O","N","T","A","I","N","S">>,
    <<"S","T","_","W","I","T","H","I","N">>, <<"S","T","_","C","O","V","E","R","S">>, <<"S","T","_","C","O","V","E","R","E","D","B","Y">>, <<"S","T","_","D","I","S","J","O","I","N","T">>, <<"S","T","_","T","O","U","C","H","E","S">>,
    <<"S","T","_","I","N","T","E","R","S","E","C","T","S","B","O","X">>, <<"S","T","_","U","N","I","O","N","_","A","G","G">>, <<"S","T","_","C","E","N","T","R","O","I","D">>, <<"S","T","_","A","R","E","A">>, <<"S","T","_","L","E","N","G","T","H">>,
    <<"S","T","_","P","E","R","I","M","E","T","E","R">>, <<"S","T","_","B","O","U","N","D","A","R","Y">>, <<"S","T","_","B","U","F","F","E","R">>, <<"S","T","_","C","L","O","S","E","S","T","P","O","I","N","T">>,
    <<"S","T","_","S","I","M","P","L","I","F","Y">>, <<"S","T","_","S","N","A","P","T","O","G","R","I","D">>, <<"S","T","_","D","I","F","F","E","R","E","N","C","E">>, <<"S","T","_","I","N","T","E","R","S","E","C","T","I","O","N">>,
    <<"S","T","_","U","N","I","O","N">>, <<"S","T","_","D","I","M","E","N","S","I","O","N">>, <<"S","T","_","G","E","O","M","E","T","R","Y","T","Y","P","E">>, <<"S","T","_","N","U","M","P","O","I","N","T","S">>,
    <<"S","T","_","I","S","E","M","P","T","Y">>, <<"S","T","_","I","S","C","O","L","L","E","C","T","I","O","N">>, <<"S","T","_","A","S","T","E","X","T">>, <<"S","T","_","A","S","G","E","O","J","S","O","N">>,
    <<"S","A","F","E">>, <<"E","R","R","O","R">>, <<"A","N","Y","_","V","A","L","U","E">>, <<"C","O","U","N","T","I","F">>, <<"L","O","G","I","C","A","L","_","A","N","D">>, <<"L","O","G","I","C","A","L","_","O","R">>,
    <<"A","P","P","R","O","X","_","C","O","U","N","T","_","D","I","S","T","I","N","C","T">>, <<"A","P","P","R","O","X","_","Q","U","A","N","T","I","L","E","S">>, <<"A","P","P","R","O","X","_","T","O","P","_","C","O","U","N","T">>,
    <<"A","P","P","R","O","X","_","T","O","P","_","S","U","M">>, <<"H","L","L","_","C","O","U","N","T",".","I","N","I","T">>, <<"H","L","L","_","C","O","U","N","T",".","M","E","R","G","E">>,
    <<"H","L","L","_","C","O","U","N","T",".","M","E","R","G","E","_","P","A","R","T","I","A","L">>, <<"H","L","L","_","C","O","U","N","T",".","E","X","T","R","A","C","T">>,
    <<"B","I","T","_","C","O","U","N","T">>, <<"B","I","T","_","A","N","D">>, <<"B","I","T","_","O","R">>, <<"B","I","T","_","X","O","R">>,
    <<"C","O","R","R">>, <<"C","O","V","A","R","_","P","O","P">>, <<"C","O","V","A","R","_","S","A","M","P">>, <<"S","T","D","D","E","V","_","P","O","P">>, <<"S","T","D","D","E","V","_","S","A","M","P">>,
    <<"S","T","D","D","E","V">>, <<"V","A","R","_","P","O","P">>, <<"V","A","R","_","S","A","M","P">>, <<"V","A","R","I","A","N","C","E">>,
    <<"P","E","R","C","E","N","T","I","L","E","_","C","O","N","T">>, <<"P","E","R","C","E","N","T","I","L","E","_","D","I","S","C">>,
    <<"A","R","R","A","Y","_","A","G","G">>, <<"S","T","R","I","N","G","_","A","G","G">>,
    <<"L","A","G">>, <<"L","E","A","D">>, <<"F","I","R","S","T","_","V","A","L","U","E">>, <<"L","A","S","T","_","V","A","L","U","E">>, <<"N","T","H","_","V","A","L","U","E">>,
    <<"R","A","N","K">>, <<"D","E","N","S","E","_","R","A","N","K">>, <<"P","E","R","C","E","N","T","_","R","A","N","K">>, <<"C","U","M","E","_","D","I","S","T">>, <<"N","T","I","L","E">>, <<"R","O","W","_","N","U","M","B","E","R">>,
    <<"N","E","T",".","I","P","_","F","R","O","M","_","S","T","R","I","N","G">>, <<"N","E","T",".","S","A","F","E","_","I","P","_","F","R","O","M","_","S","T","R","I","N","G">>, <<"N","E","T",".","I","P","_","T","O","_","S","T","R","I","N","G">>,
    <<"N","E","T",".","I","P","_","N","E","T","_","M","A","S","K">>, <<"N","E","T",".","I","P","_","T","R","U","N","C">>, <<"N","E","T",".","I","P","V","4","_","F","R","O","M","_","I","N","T","6","4">>, <<"N","E","T",".","I","P","V","4","_","T","O","_","I","N","T","6","4">>,
    <<"N","E","T",".","H","O","S","T">>, <<"N","E","T",".","P","U","B","L","I","C","_","S","U","F","F","I","X">>, <<"N","E","T",".","R","E","G","_","D","O","M","A","I","N">>,
    <<"M","L",".","P","R","E","D","I","C","T">>, <<"M","L",".","E","V","A","L","U","A","T","E">>, <<"M","L",".","R","O","C","_","C","U","R","V","E">>, <<"M","L",".","C","O","N","F","U","S","I","O","N","_","M","A","T","R","I","X">>,
    <<"M","L",".","F","E","A","T","U","R","E","_","I","N","F","O">>, <<"M","L",".","W","E","I","G","H","T","S">>, <<"M","L",".","T","R","A","N","S","F","O","R","M">>, <<"M","L",".","G","E","N","E","R","A","T","E","_","T","E","X","T">>,
    <<"S","E","S","S","I","O","N","_","U","S","E","R">>, <<"C","U","R","R","E","N","T","_","U","S","E","R">>, <<"G","E","N","E","R","A","T","E","_","U","U","I","D">>, <<"M","D","5">>, <<"S","H","A","1">>, <<"S","H","A","2","5","6">>,
    <<"S","H","A","5","1","2">>, <<"F","A","R","M","_","F","I","N","G","E","R","P","R","I","N","T">>, <<"T","O","_","B","A","S","E","3","2">>, <<"T","O","_","B","A","S","E","6","4">>, <<"F","R","O","M","_","B","A","S","E","3","2">>,
    <<"F","R","O","M","_","B","A","S","E","6","4">>, <<"T","O","_","H","E","X">>, <<"F","R","O","M","_","H","E","X">>
  }

----------------------------------------------------------------------------
(* SQLMasker._tokenize: the ordered patterns, each tried with re.match at  *)
(* the start of the remaining text. Every Match operator gives the length  *)
(* of the match, 0 for no match (no pattern matches the empty string).     *)

\* length of the longest prefix of s whose characters are all in the class,
\* in_class[i] telling whether s[i] is
RunLength(in_class) ==
  LET stops == { i \in DOMAIN in_class : ~in_class[i] }
  IN  IF stops = {} THEN Len(in_class)
      ELSE (CHOOSE i \in stops : \A j \in stops : i <= j) - 1

\* /\*[\s\S]*?\*/ : through the nearest following */
MatchBlockComment(r) ==
  IF StartsWith(r, <<"/", "*">>)
  THEN LET e == FindFrom(r, <<"*", "/">>, 3)
       IN  IF e = 0 THEN 0 ELSE e + 1
  ELSE 0

\* --[^\n]* : through the end of the line, newline excluded
NotNewline(c) == c # "\n"
MatchLineComment(r) ==
  IF StartsWith(r, <<"-", "-">>)
  THEN 2 + RunLength([i \in 1..(Len(r) - 2) |-> NotNewline(r[i + 2])])
  ELSE 0

\* '[^']*' : through the next single quote
MatchString(r) ==
  IF StartsWith(r, <<"'">>)
  THEN FindFrom(r, <<"'">>, 2)
  ELSE 0

\* \b[a-zA-Z_][a-zA-Z0-9_.]*\b : the greedy run, backtracked until it ends
\* at a word boundary, that is with its trailing dots given back
IsIdentChar(c) == IsWordChar(c) \/ c = "."
RECURSIVE DropTrailingDots(_, _)
DropTrailingDots(r, n) ==
  IF n > 0 /\ r[n] = "." THEN DropTrailingDots(r, n - 1) ELSE n
MatchIdentifier(r) ==
  IF r # <<>> /\ (IsLetter(r[1]) \/ r[1] = "_")
  THEN DropTrailingDots(r, RunLength([i \in 1..Len(r) |-> IsIdentChar(r[i])]))
  ELSE 0

\* \s+
MatchWhitespace(r) == RunLength([i \in 1..Len(r) |-> IsSpace(r[i])])

\* one character of the punctuation class
MatchPunctuation(r) == IF r # <<>> /\ r[1] \in PunctuationChars THEN 1 ELSE 0

\* NextToken with the PUNCTUATION pattern moved to the head of the list
NextTokenPunctuationFirst(r) ==
  LET tok(t, n) == [type |-> t, value |-> SubSeq(r, 1, n)]
  IN  IF MatchPunctuation(r) > 0 THEN tok("PUNCTUATION", 1)
      ELSE IF MatchBlockComment(r) > 0 THEN tok("COMMENT", MatchBlockComment(r))
      ELSE IF MatchLineComment(r) > 0 THEN tok("COMMENT", MatchLineComment(r))
      ELSE IF MatchString(r) > 0 THEN tok("STRING", MatchString(r))
      ELSE IF MatchIdentifier(r) > 0 THEN tok("IDENTIFIER", MatchIdentifier(r))
      ELSE IF MatchWhitespace(r) > 0 THEN tok("WHITESPACE", MatchWhitespace(r))
      ELSE tok("OTHER", 1)

\* NextToken with the fallback left out: nothing is taken where no pattern
\* matches
NextTokenWithoutFallback(r) ==
  LET tok(t, n) == [type |-> t, value |-> SubSeq(r, 1, n)]
  IN  IF MatchBlockComment(r) > 0 THEN tok("COMMENT", MatchBlockComment(r))
      ELSE IF MatchLineComment(r) > 0 THEN tok("COMMENT", MatchLineComment(r))
      ELSE IF MatchString(r) > 0 THEN tok("STRING", MatchString(r))
      ELSE IF MatchIdentifier(r) > 0 THEN tok("IDENTIFIER", MatchIdentifier(r))
      ELSE IF MatchWhitespace(r) > 0 THEN tok("WHITESPACE", MatchWhitespace(r))
      ELSE IF MatchPunctuation(r) > 0 THEN tok("PUNCTUATION", 1)
      ELSE tok("OTHER", 0)

\* the first pattern of the list that matches at the start of r, or the
\* fallback that takes one character as is
NextToken(r) ==
  LET tok(t, n) == [type |-> t, value |-> SubSeq(r, 1, n)]
  IN  IF MatchBlockComment(r) > 0 THEN tok("COMMENT", MatchBlockComment(r))
      ELSE IF MatchLineComment(r) > 0 THEN tok("COMMENT", MatchLineComment(r))
      ELSE IF MatchString(r) > 0 THEN tok("STRING", MatchString(r))
      ELSE IF MatchIdentifier(r) > 0 THEN tok("IDENTIFIER", MatchIdentifier(r))
      ELSE IF MatchWhitespace(r) > 0 THEN tok("WHITESPACE", MatchWhitespace(r))
      ELSE IF MatchPunctuation(r) > 0 THEN tok("PUNCTUATION", 1)
      ELSE tok("OTHER", 1)

RECURSIVE Tokenize(_)
Tokenize(sql) ==
  IF sql = <<>> THEN <<>>
  ELSE LET t == NextToken(sql)
       IN  <<t>> \o Tokenize(DropTo(sql, Len(t.value) + 1))

----------------------------------------------------------------------------
(* Dict[str, str] as the sequence of its items.                            *)

\* key in d
HasKey(d, key) == \E i \in DOMAIN d : d[i].k = key
\* d[key], for a key of d
Lookup(d, key) == d[CHOOSE i \in DOMAIN d : d[i].k = key].v
\* d[key] = value: a new key goes last, a known key keeps its place
SetItem(d, key, value) ==
  IF HasKey(d, key)
  THEN [i \in DOMAIN d |-> IF d[i].k = key THEN [k |-> key, v |-> value] ELSE d[i]]
  ELSE Append(d, [k |-> key, v |-> value])
Keys(d) == [i \in DOMAIN d |-> d[i].k]
Values(d) == [i \in DOMAIN d |-> d[i].v]

----------------------------------------------------------------------------
(* SQLMasker.__init__                                                      *)

\* CounterValue with the COMMENT branch left out: comment placeholders do
\* not advance the counter
CounterValueWithoutComments(masked_value) ==
  IF StartsWith(masked_value, <<"'", "m">>) /\ EndsWith(masked_value, <<"'">>)
  THEN ParseInt(StripChars(masked_value, {"'", "m"}))
  ELSE IF StartsWith(masked_value, <<"m">>)
  THEN ParseInt(DropTo(masked_value, 2))
  ELSE -1

\* the counter value one placeholder of the supplied mapping contributes:
\* the int parsed from it, -1 where no branch applies or int() raises
CounterValue(masked_value) ==
  IF StartsWith(masked_value, <<"'", "m">>) /\ EndsWith(masked_value, <<"'">>)
  THEN ParseInt(StripChars(masked_value, {"'", "m"}))
  ELSE IF StartsWith(masked_value, <<"m">>)
  THEN ParseInt(DropTo(masked_value, 2))
  ELSE IF \/ StartsWith(masked_value, <<"-","-","C","O","M","M","E","N","T">>)
          \/ Contains(masked_value, <<"C","O","M","M","E","N","T">>)
  THEN ParseInt(Replace(Replace(Replace(masked_value,
                  <<"-","-","C","O","M","M","E","N","T">>, <<>>),
                  <<"/","*","C","O","M","M","E","N","T">>, <<>>),
                  <<"*","/">>, <<>>))
  ELSE -1

Max(a, b) == IF a >= b THEN a ELSE b

\* max_counter after the loop over the values of the mapping
RECURSIVE MaxCounter(_)
MaxCounter(values) ==
  IF values = <<>> THEN 0
  ELSE Max(MaxCounter(SubSeq(values, 1, Len(values) - 1)),
           CounterValue(values[Len(values)]))

\* self._counter after construction
InitCounter(existing_mapping) ==
  IF existing_mapping # <<>> /\ MaxCounter(Values(existing_mapping)) > 0
  THEN MaxCounter(Values(existing_mapping)) + 1
  ELSE 1

\* InitMapping with the copy left out: the supplied mapping is dropped
InitMappingDropped(existing_mapping) == <<>>

\* self._mapping after construction: a copy of the supplied mapping
InitMapping(existing_mapping) ==
  IF existing_mapping # <<>> THEN existing_mapping ELSE <<>>

----------------------------------------------------------------------------
(* SQLMasker.encode. The engine state e is [counter, mapping].             *)

\* IsKeyword without the upper(): only upper-case keywords are recognised
IsKeywordExactCase(text) == text \in Keywords

IsKeyword(text) == UpperStr(text) \in Keywords

CommentMask(token_value, n) ==
  IF StartsWith(token_value, <<"-", "-">>)
  THEN <<"-","-","C","O","M","M","E","N","T">> \o Dec(n)
  ELSE <<"/","*","C","O","M","M","E","N","T">> \o Dec(n) \o <<"*", "/">>
\* StringMask without the quotes
StringMaskUnquoted(n) == <<"m">> \o Dec(n)
StringMask(n) == <<"'", "m">> \o Dec(n) \o <<"'">>
IdentifierMask(n) == <<"m">> \o Dec(n)

\* Assign with the increment left out
AssignWithoutIncrement(e, key, masked) ==
  IF HasKey(e.mapping, key) THEN e
  ELSE [counter |-> e.counter, mapping |-> SetItem(e.mapping, key, masked)]

\* Assign with the membership test left out: every occurrence is given a
\* new placeholder
AssignAlways(e, key, masked) ==
  [counter |-> e.counter + 1, mapping |-> SetItem(e.mapping, key, masked)]

\* if key not in self._mapping: self._mapping[key] = masked; self._counter += 1
Assign(e, key, masked) ==
  IF HasKey(e.mapping, key) THEN e
  ELSE [counter |-> e.counter + 1, mapping |-> SetItem(e.mapping, key, masked)]

\* the loop over the parts of a qualified name: [e, masked_parts]
RECURSIVE EncodeParts(_, _)
EncodeParts(e, parts) ==
  IF parts = <<>> THEN [e |-> e, masked_parts |-> <<>>]
  ELSE LET part == Head(parts)
           e1 == IF IsKeyword(part) THEN e
                 ELSE Assign(e, part, IdentifierMask(e.counter))
           piece == IF IsKeyword(part) THEN part ELSE Lookup(e1.mapping, part)
           rest == EncodeParts(e1, Tail(parts))
       IN  [e |-> rest.e, masked_parts |-> <<piece>> \o rest.masked_parts]

\* EncodeIdentifier with the split left out: a qualified name is masked as
\* one identifier
EncodeIdentifierUnsplit(e, token_value) ==
  IF UpperStr(token_value) \in Keywords THEN [e |-> e, piece |-> token_value]
  ELSE LET e1 == IF HasKey(e.mapping, token_value) THEN e
                 ELSE [counter |-> e.counter + 1,
                       mapping |-> SetItem(e.mapping, token_value,
                                           <<"m">> \o Dec(e.counter))]
       IN  [e |-> e1, piece |-> Lookup(e1.mapping, token_value)]

\* the IDENTIFIER branch: [e, piece]
EncodeIdentifier(e, token_value) ==
  IF IsKeyword(token_value) THEN [e |-> e, piece |-> token_value]
  ELSE LET parts == Split(token_value, ".")
       IN  IF Len(parts) > 1
           THEN LET r == EncodeParts(e, parts)
                IN  [e |-> r.e, piece |-> Join(r.masked_parts, <<".">>)]
           ELSE LET e1 == Assign(e, token_value, IdentifierMask(e.counter))
                IN  [e |-> e1, piece |-> Lookup(e1.mapping, token_value)]

\* EncodeToken with the else branch left out: a token that is no comment,
\* string or identifier is not appended
EncodeTokenWithoutElse(e, token) ==
  IF token.type = "COMMENT"
  THEN LET e1 == Assign(e, token.value, CommentMask(token.value, e.counter))
       IN  [e |-> e1, piece |-> Lookup(e1.mapping, token.value)]
  ELSE IF token.type = "STRING"
  THEN LET e1 == Assign(e, token.value, StringMask(e.counter))
       IN  [e |-> e1, piece |-> Lookup(e1.mapping, token.value)]
  ELSE IF token.type = "IDENTIFIER"
  THEN EncodeIdentifier(e, token.value)
  ELSE [e |-> e, piece |-> <<>>]

\* one iteration of the token loop: [e, piece]
EncodeToken(e, token) ==
  IF token.type = "COMMENT"
  THEN LET e1 == Assign(e, token.value, CommentMask(token.value, e.counter))
       IN  [e |-> e1, piece |-> Lookup(e1.mapping, token.value)]
  ELSE IF token.type = "STRING"
  THEN LET e1 == Assign(e, token.value, StringMask(e.counter))
       IN  [e |-> e1, piece |-> Lookup(e1.mapping, token.value)]
  ELSE IF token.type = "IDENTIFIER"
  THEN EncodeIdentifier(e, token.value)
  ELSE [e |-> e, piece |-> token.value]

\* the token loop: [e, masked_tokens]
RECURSIVE EncodeTokens(_, _)
EncodeTokens(e, tokens) ==
  IF tokens = <<>> THEN [e |-> e, masked_tokens |-> <<>>]
  ELSE LET r == EncodeToken(e, Head(tokens))
           rest == EncodeTokens(r.e, Tail(tokens))
       IN  [e |-> rest.e, masked_tokens |-> <<r.piece>> \o rest.masked_tokens]

----------------------------------------------------------------------------
(* SQLMasker.decode                                                        *)

\* {v: k for k, v in mapping.items()}
RECURSIVE RevMapping(_)
RevMapping(mapping) ==
  IF mapping = <<>> THEN <<>>
  ELSE LET last == mapping[Len(mapping)]
       IN  SetItem(RevMapping(SubSeq(mapping, 1, Len(mapping) - 1)), last.v, last.k)

\* number of digits at position i of s
DigitsAt(s, i) ==
  IF i > Len(s) THEN 0
  ELSE RunLength([j \in 1..(Len(s) - i + 1) |-> IsDigit(s[i + j - 1])])

\* length of the match of (/\*COMMENT\d+\*/|--COMMENT\d+) at position i, or 0
CommentMaskAt(s, i) ==
  IF /\ MatchesAt(s, <<"/","*","C","O","M","M","E","N","T">>, i)
     /\ DigitsAt(s, i + 9) > 0
     /\ MatchesAt(s, <<"*", "/">>, i + 9 + DigitsAt(s, i + 9))
  THEN 9 + DigitsAt(s, i + 9) + 2
  ELSE IF /\ MatchesAt(s, <<"-","-","C","O","M","M","E","N","T">>, i)
          /\ DigitsAt(s, i + 9) > 0
  THEN 9 + DigitsAt(s, i + 9)
  ELSE 0

\* length of the match of 'm\d+' at position i, or 0
StringMaskAt(s, i) ==
  IF /\ MatchesAt(s, <<"'", "m">>, i)
     /\ DigitsAt(s, i + 2) > 0
     /\ MatchesAt(s, <<"'">>, i + 2 + DigitsAt(s, i + 2))
  THEN 2 + DigitsAt(s, i + 2) + 1
  ELSE 0

\* comment_pattern.finditer(s): the matches from position i on, left to
\* right, not overlapping
RECURSIVE CommentMasksIn(_, _)
CommentMasksIn(s, i) ==
  IF i > Len(s) THEN <<>>
  ELSE IF CommentMaskAt(s, i) > 0
  THEN <<SubSeq(s, i, i + CommentMaskAt(s, i) - 1)>>
         \o CommentMasksIn(s, i + CommentMaskAt(s, i))
  ELSE CommentMasksIn(s, i + 1)

\* string_pattern.finditer(s)
RECURSIVE StringMasksIn(_, _)
StringMasksIn(s, i) ==
  IF i > Len(s) THEN <<>>
  ELSE IF StringMaskAt(s, i) > 0
  THEN <<SubSeq(s, i, i + StringMaskAt(s, i) - 1)>>
         \o StringMasksIn(s, i + StringMaskAt(s, i))
  ELSE StringMasksIn(s, i + 1)

\* the body of both finditer loops: for each match found in the text the
\* loop started on, replace every occurrence of the mask in the current
\* result by its original
RECURSIVE ReplaceMasks(_, _, _)
ReplaceMasks(result, masks, rev_mapping) ==
  IF masks = <<>> THEN result
  ELSE LET mask == Head(masks)
       IN  ReplaceMasks(IF HasKey(rev_mapping, mask)
                        THEN Replace(result, mask, Lookup(rev_mapping, mask))
                        ELSE result,
                        Tail(masks), rev_mapping)

\* \b at position i of s (between s[i-1] and s[i])
IsWordAt(s, i) == i >= 1 /\ i <= Len(s) /\ IsWordChar(s[i])
WordBoundary(s, i) == IsWordAt(s, i - 1) # IsWordAt(s, i)

\* re.compile(r'\b' + re.escape(mask) + r'\b').sub(repl, s), from position
\* i on, for a repl without backslashes
RECURSIVE SubWholeWord(_, _, _, _)
SubWholeWord(s, i, mask, repl) ==
  IF i > Len(s) THEN <<>>
  ELSE IF /\ MatchesAt(s, mask, i)
          /\ WordBoundary(s, i)
          /\ WordBoundary(s, i + Len(mask))
  THEN repl \o SubWholeWord(s, i + Len(mask), mask, repl)
  ELSE <<s[i]>> \o SubWholeWord(s, i + 1, mask, repl)

\* sorted(masks, key=len, reverse=True): longest first, masks of one length
\* in their original order (the sort is stable)
RECURSIVE SortByLenDesc(_)
SortByLenDesc(masks) ==
  IF masks = <<>> THEN <<>>
  ELSE LET longest == CHOOSE i \in DOMAIN masks :
                        /\ \A j \in DOMAIN masks : Len(masks[j]) <= Len(masks[i])
                        /\ \A j \in 1..(i - 1) : Len(masks[j]) < Len(masks[i])
       IN  <<masks[longest]>>
             \o SortByLenDesc(SubSeq(masks, 1, longest - 1)
                              \o SubSeq(masks, longest + 1, Len(masks)))

IsIdentifierMask(m) == StartsWith(m, <<"m">>) /\ ~StartsWith(m, <<"'", "m">>)
IdentifierMasks(rev_mapping) ==
  SortByLenDesc(SelectSeq(Keys(rev_mapping), IsIdentifierMask))

\* the loop over identifier_masks
RECURSIVE SubIdentifiers(_, _, _)
SubIdentifiers(result, masks, rev_mapping) ==
  IF masks = <<>> THEN result
  ELSE SubIdentifiers(SubWholeWord(result, 1, Head(masks),
                                   Lookup(rev_mapping, Head(masks))),
                      Tail(masks), rev_mapping)

Decode(masked_sql, mapping) ==
  LET rev_mapping == RevMapping(mapping)
      comments == ReplaceMasks(masked_sql, CommentMasksIn(masked_sql, 1), rev_mapping)
      strings == ReplaceMasks(comments, StringMasksIn(comments, 1), rev_mapping)
  IN  SubIdentifiers(strings, IdentifierMasks(rev_mapping), rev_mapping)

----------------------------------------------------------------------------
(* SQLUnmasker                                                             *)

\* str.isalnum of one character
IsAlnum(c) == IsLetter(c) \/ IsDigit(c)

\* str.split(sep) for a non-empty sep of any length
RECURSIVE SplitOn(_, _)
SplitOn(s, sep) ==
  LET j == FindFrom(s, sep, 1)
  IN  IF j = 0 THEN <<s>>
      ELSE <<SubSeq(s, 1, j - 1)>> \o SplitOn(DropTo(s, j + Len(sep)), sep)

\* f"'{s}'" and f'"{s}"'
Quoted(s, quote) == <<quote>> \o s \o <<quote>>

\* the loop of _precompute_replacements over masked_ids, writing into the
\* direct_replacements the instance already holds
RECURSIVE AddReplacements(_, _, _)
AddReplacements(direct, masked_ids, rev_mapping) ==
  IF masked_ids = <<>> THEN direct
  ELSE LET masked_id == Head(masked_ids)
           original_id == Lookup(rev_mapping, masked_id)
           bare == SetItem(direct, masked_id, original_id)
           single == SetItem(bare, Quoted(masked_id, "'"), Quoted(original_id, "'"))
           double == SetItem(single, Quoted(masked_id, "\""), Quoted(original_id, "\""))
       IN  AddReplacements(double, Tail(masked_ids), rev_mapping)

\* SQLUnmasker._precompute_replacements
PrecomputeReplacements(direct, rev_mapping) ==
  AddReplacements(direct, SortByLenDesc(Keys(rev_mapping)), rev_mapping)

\* the test of unmask lines 112-113 on what precedes an occurrence: nothing,
\* or a last character that is white space or not alphanumeric
AtTokenStart(new_result) ==
  \/ new_result = <<>>
  \/ IsSpace(new_result[Len(new_result)])
  \/ ~IsAlnum(new_result[Len(new_result)])

\* the loop over parts[1:] for one pattern
RECURSIVE JoinParts(_, _, _, _)
JoinParts(new_result, parts, pattern, replacement) ==
  IF parts = <<>> THEN new_result
  ELSE JoinParts(IF AtTokenStart(new_result)
                 THEN new_result \o replacement \o Head(parts)
                 ELSE new_result \o pattern \o Head(parts),
                 Tail(parts), pattern, replacement)

\* the loop over direct_replacements.items()
RECURSIVE ReplaceDirect(_, _)
ReplaceDirect(result, items) ==
  IF items = <<>> THEN result
  ELSE LET pattern == Head(items).k
           replacement == Head(items).v
           parts == SplitOn(result, pattern)
       IN  ReplaceDirect(IF Contains(result, pattern) /\ Len(parts) > 1
                         THEN JoinParts(parts[1], Tail(parts), pattern, replacement)
                         ELSE result,
                         Tail(items))

\* Unmask with the exact-match return left out
UnmaskByScanOnly(text, rev_mapping, direct) ==
  IF text = <<>> THEN text ELSE ReplaceDirect(text, direct)

\* SQLUnmasker.unmask on an instance holding rev_mapping and direct_replacements
Unmask(text, rev_mapping, direct) ==
  IF text = <<>> THEN text
  ELSE IF HasKey(rev_mapping, text) THEN Lookup(rev_mapping, text)
  ELSE ReplaceDirect(text, direct)

----------------------------------------------------------------------------
(* The inputs of the model.                                                *)

\* SQL fragments the statements of the model are concatenated from: two
\* identifiers, a keyword in mixed case, a dot, a blank, a digit, a string
\* literal, a line comment, a newline and a block comment
Lexicon ==
  { <<"a">>, <<"b">>, <<"A","s">>, <<".">>, <<" ">>, <<"1">>,
    <<"'","x","'">>, <<"-","-","c">>, <<"\n">>, <<"/","*","c","*","/">> }

MaxFrags == 3

\* the concatenations of at most n fragments
RECURSIVE Concatenations(_)
Concatenations(n) ==
  IF n = 0 THEN { <<>> }
  ELSE LET shorter == Concatenations(n - 1)
       IN  shorter \cup { w \o f : w \in shorter, f \in Lexicon }

Inputs == Concatenations(MaxFrags)

\* mappings handed to the constructor: none, and mappings of earlier
\* sessions holding each placeholder form as their highest number
SeedIdentifier == << [k |-> <<"a">>, v |-> <<"m","5">>] >>
SeedString ==
  << [k |-> <<"b">>, v |-> <<"m","1">>],
     [k |-> <<"'","x","'">>, v |-> <<"'","m","2","'">>] >>
SeedLineComment ==
  << [k |-> <<"-","-","c">>, v |-> <<"-","-","C","O","M","M","E","N","T","3">>] >>
SeedBlockComment ==
  << [k |-> <<"a">>, v |-> <<"m","1">>],
     [k |-> <<"/","*","c","*","/">>,
      v |-> <<"/","*","C","O","M","M","E","N","T","2","*","/">>] >>
SeedNine ==
  << [k |-> <<"a">>, v |-> <<"m","1">>],
     [k |-> <<"'","x","'">>, v |-> <<"'","m","2","'">>],
     [k |-> <<"-","-","c">>, v |-> <<"-","-","C","O","M","M","E","N","T","3">>],
     [k |-> <<"/","*","c","*","/">>,
      v |-> <<"/","*","C","O","M","M","E","N","T","4","*","/">>],
     [k |-> <<"c">>, v |-> <<"m","5">>],
     [k |-> <<"d">>, v |-> <<"m","6">>],
     [k |-> <<"e">>, v |-> <<"m","7">>],
     [k |-> <<"f">>, v |-> <<"m","8">>],
     [k |-> <<"g">>, v |-> <<"m","9">>] >>
ExistingMappings ==
  { <<>>, SeedIdentifier, SeedString, SeedLineComment, SeedBlockComment, SeedNine }

----------------------------------------------------------------------------
(* One SQLMasker instance and its caller.                                  *)

VARIABLES
  counter,        \* self._counter
  mapping,        \* self._mapping
  existing,       \* the existing_mapping the instance was constructed with
  sql,            \* the argument of the last encode call
  loop_start,     \* [counter, mapping] when the token loop of that call began
  masked_tokens,  \* masked_tokens of that call
  masked_sql,     \* the text that call returned
  restored,       \* what decode returned for that text
  op,             \* the last operation
  error,          \* the exception that operation raised, "none" for none
  calls,          \* number of encode calls made on the instance
  was_reset,      \* whether reset() has run on the instance
  session,        \* the encode calls since the mapping was last empty or
                  \* supplied: [sql, reset_mapping, masked_sql, mapping]
  decoded,        \* which call of the session decode was given the text of
  fresh           \* a SQLMasker() constructed when the instance was last
                  \* reset and given the encode calls made since

masker_vars == <<counter, mapping, existing, sql, loop_start, masked_tokens,
                 masked_sql, restored, op, error, calls, was_reset, session,
                 decoded, fresh>>

\* one SQLUnmasker instance and its caller
VARIABLES
  unmasker_op,          \* the last operation on the instance, "none" before __init__
  unmasker_mapping,     \* self.mapping
  unmasker_rev_mapping, \* self.rev_mapping
  direct_replacements,  \* self.direct_replacements, in insertion order
  unmask_text,          \* the argument of the last unmask call
  unmask_result         \* what that call returned

unmasker_vars == <<unmasker_op, unmasker_mapping, unmasker_rev_mapping,
                   direct_replacements, unmask_text, unmask_result>>

\* one call of SQLMasker._tokenize, iteration by iteration
VARIABLES
  tokenize_pc,    \* "idle", "loop" (at the while test) or "returned"
  tokenize_sql,   \* the sql argument
  remaining,      \* remaining
  tokenized       \* tokens

tokenizer_vars == <<tokenize_pc, tokenize_sql, remaining, tokenized>>

\* one run of csv_processor.main
VARIABLES
  command,        \* args.command
  csv_pc,         \* where the run is
  fieldnames,     \* reader.fieldnames of the input file, <<>> for None
  rows,           \* the rows of the input file: the value each holds in its
                  \* last column
  row_index,      \* number of rows the loop over rows has handled
  out_rows,       \* the value the loop stored in each handled row
  written,        \* the files written
  raised,         \* the exception that left the command, "none" for none
  stderr,         \* what main printed on stderr
  exit_status     \* the status of sys.exit, -1 while the run has not ended

csv_vars == <<command, csv_pc, fieldnames, rows, row_index, out_rows, written,
              raised, stderr, exit_status>>

\* two SQLMasker instances, the dict objects of the heap and the callers'
\* references to them
VARIABLES
  heap,           \* heap[r]: the items of the dict with reference r
  engines,        \* per instance: constructed, self._counter, self._mapping
                  \* (a reference), the number of resets so far (epoch) and
                  \* the text the last encode call returned
  alone,          \* per instance: counter, mapping and last masked text of
                  \* an instance given only this instance's calls
  returned,       \* what the encode calls returned, in order: the instance,
                  \* its epoch, the masked text, the mapping (a reference)
                  \* and the items that mapping held at the return
  supplied,       \* the existing_mapping given to the second instance (a
                  \* reference, 0 for None) and the items it held then
  heap_op         \* the last call: name, instance, result of a decode

heap_vars == <<heap, engines, alone, returned, supplied, heap_op>>

NotConstructed ==
  [constructed |-> FALSE, counter |-> 0, mapping |-> 0, epoch |-> 0,
   masked_sql |-> <<>>]
NoSupplied == [mapping |-> 0, entries |-> <<>>]
NoOp == [name |-> "none", engine |-> 0, result |-> <<>>]

\* no SQLUnmasker, no _tokenize call traced, no csv_processor run, no
\* second SQLMasker
NoHeap ==
  /\ heap = <<>>
  /\ engines = <<>>
  /\ alone = <<>>
  /\ returned = <<>>
  /\ supplied = NoSupplied
  /\ heap_op = NoOp
NoUnmasker ==
  /\ unmasker_op = "none"
  /\ unmasker_mapping = <<>>
  /\ unmasker_rev_mapping = <<>>
  /\ direct_replacements = <<>>
  /\ unmask_text = <<>>
  /\ unmask_result = <<>>
NoTokenizer ==
  /\ tokenize_pc = "idle"
  /\ tokenize_sql = <<>>
  /\ remaining = <<>>
  /\ tokenized = <<>>
NoCsv ==
  /\ command = "none"
  /\ csv_pc = "none"
  /\ fieldnames = <<>>
  /\ rows = <<>>
  /\ row_index = 0
  /\ out_rows = <<>>
  /\ written = {}
  /\ raised = "none"
  /\ stderr = "none"
  /\ exit_status = -1

NoCall == [counter |-> 0, mapping |-> <<>>]
NoInstance == [counter |-> 0, mapping |-> <<>>, masked_sql |-> <<>>]

\* SQLMasker(existing_mapping)
Construct(existing_mapping) ==
  /\ existing = existing_mapping
  /\ counter = InitCounter(existing_mapping)
  /\ mapping = InitMapping(existing_mapping)
  /\ sql = <<>>
  /\ loop_start = NoCall
  /\ masked_tokens = <<>>
  /\ masked_sql = <<>>
  /\ restored = <<>>
  /\ op = "init"
  /\ error = "none"
  /\ calls = 0
  /\ was_reset = FALSE
  /\ session = <<>>
  /\ decoded = 0
  /\ fresh = NoInstance

Init ==
  /\ \E existing_mapping \in ExistingMappings : Construct(existing_mapping)
  /\ NoUnmasker /\ NoTokenizer /\ NoHeap /\ NoCsv

\* ResetEngine with the mapping left as it is
ResetEngineKeepMapping(e) == [counter |-> 1, mapping |-> e.mapping]

\* ResetEngine with the counter left as it is
ResetEngineKeepCounter(e) == [counter |-> e.counter, mapping |-> <<>>]

\* SQLMasker.reset as a function of the engine state
ResetEngine(e) == [counter |-> 1, mapping |-> <<>>]

\* SQLMasker() as an engine state
Constructed == [counter |-> InitCounter(<<>>), mapping |-> InitMapping(<<>>)]

\* encode(s) on the instance in state f
EncodeOn(f, s) ==
  LET r == EncodeTokens([counter |-> f.counter, mapping |-> f.mapping], Tokenize(s))
  IN  [counter |-> r.e.counter, mapping |-> r.e.mapping,
       masked_sql |-> Join(r.masked_tokens, <<>>)]

\* masker.encode(s, reset_mapping)
Encode(s, reset_mapping) ==
  LET e0 == IF reset_mapping THEN ResetEngine([counter |-> counter, mapping |-> mapping])
            ELSE [counter |-> counter, mapping |-> mapping]
      r == EncodeTokens(e0, Tokenize(s))
  IN  /\ sql' = s
      /\ loop_start' = e0
      /\ counter' = r.e.counter
      /\ mapping' = r.e.mapping
      /\ masked_tokens' = r.masked_tokens
      /\ masked_sql' = Join(r.masked_tokens, <<>>)
      /\ restored' = <<>>
      /\ op' = "encode"
      /\ error' = "none"
      /\ calls' = calls + 1
      /\ was_reset' = (was_reset \/ reset_mapping)
      /\ session' =
           (IF reset_mapping THEN <<>> ELSE session)
             \o << [sql |-> s, reset_mapping |-> reset_mapping,
                    masked_sql |-> Join(r.masked_tokens, <<>>),
                    mapping |-> r.e.mapping] >>
      /\ decoded' = 0
      /\ fresh' = IF reset_mapping THEN EncodeOn(Constructed, s)
                  ELSE IF was_reset THEN EncodeOn(fresh, s)
                  ELSE fresh
      /\ UNCHANGED existing

\* masker.reset()
Reset ==
  /\ counter' = ResetEngine([counter |-> counter, mapping |-> mapping]).counter
  /\ mapping' = ResetEngine([counter |-> counter, mapping |-> mapping]).mapping
  /\ op' = "reset"
  /\ error' = "none"
  /\ was_reset' = TRUE
  /\ session' = <<>>
  /\ fresh' = [counter |-> Constructed.counter, mapping |-> Constructed.mapping,
               masked_sql |-> <<>>]
  /\ UNCHANGED <<existing, sql, loop_start, masked_tokens, masked_sql, restored,
                 calls, decoded>>
  /\ UNCHANGED <<unmasker_vars, tokenizer_vars, csv_vars, heap_vars>>

\* masker.decode(masked, mapping) on what the last encode call returned
DecodeReturned ==
  /\ op = "encode"
  /\ restored' = Decode(masked_sql, mapping)
  /\ decoded' = Len(session)
  /\ op' = "decode"
  /\ error' = "none"
  /\ UNCHANGED <<counter, mapping, existing, sql, loop_start, masked_tokens,
                 masked_sql, calls, was_reset, session, fresh>>
  /\ UNCHANGED <<unmasker_vars, tokenizer_vars, csv_vars, heap_vars>>

\* masker.decode(masked_sql_i, mapping_n): the text an earlier call of the
\* session returned, decoded with the mapping the last call returned
DecodeEarlier ==
  /\ op = "encode"
  /\ \E i \in 1..(Len(session) - 1) :
       /\ restored' = Decode(session[i].masked_sql, session[Len(session)].mapping)
       /\ decoded' = i
  /\ op' = "decode"
  /\ error' = "none"
  /\ UNCHANGED <<counter, mapping, existing, sql, loop_start, masked_tokens,
                 masked_sql, calls, was_reset, session, fresh>>
  /\ UNCHANGED <<unmasker_vars, tokenizer_vars, csv_vars, heap_vars>>

\* the names SQLMasker defines
SQLMaskerMethods == { "__init__", "encode", "reset", "decode", "_tokenize" }

\* sql_query.strip()
Strip(s) == StripChars(s, {" ", "\n", "\t", "\r", "\f"})

\* csv_processor.mask_comments_only, one row of the loop over the rows, on
\* the SQLMasker() the command creates
MaskCommentsOnlyRow(sql_query) ==
  /\ sql' = sql_query
  /\ op' = "mask_comments"
  /\ IF sql_query # <<>> /\ Strip(sql_query) # <<>>
     THEN \* masker.encode_comments_only(sql_query)
          /\ "encode_comments_only" \notin SQLMaskerMethods
          /\ error' = "AttributeError"
          /\ masked_sql' = masked_sql
     ELSE \* row[masked_column] = ""
          /\ error' = "none"
          /\ masked_sql' = <<>>
  /\ UNCHANGED <<counter, mapping, existing, loop_start, masked_tokens, restored,
                 calls, was_reset, session, decoded, fresh>>

\* one statement masked and restored, as encode_sql.py and decode_sql.py do,
\* on an instance constructed with or without an existing mapping
EncodeOnce ==
  /\ op = "init"
  /\ \E s \in Inputs : Encode(s, FALSE)
  /\ UNCHANGED <<unmasker_vars, tokenizer_vars, csv_vars, heap_vars>>
MaskCommentsOnly ==
  /\ op = "init"
  /\ existing = <<>>
  /\ \E s \in Inputs : MaskCommentsOnlyRow(s)
  /\ UNCHANGED <<unmasker_vars, tokenizer_vars, csv_vars, heap_vars>>

Next ==
  \/ EncodeOnce
  \/ DecodeReturned
  \/ MaskCommentsOnly

vars == <<masker_vars, unmasker_vars, tokenizer_vars, csv_vars, heap_vars>>

Spec == Init /\ [][Next]_vars

----------------------------------------------------------------------------
(* A masking session: several statements encoded one after another on one  *)
(* instance, as process_csv does for the rows of a file and usage_example  *)
(* for related statements, with reset() and reset_mapping in between.      *)

\* SELECT id, name FROM users
ExampleSelect ==
  <<"S","E","L","E","C","T"," ","i","d",","," ","n","a","m","e"," ",
    "F","R","O","M"," ","u","s","e","r","s">>
\* SELECT m1, m2 FROM m3
ExampleSelectMasked ==
  <<"S","E","L","E","C","T"," ","m","1",","," ","m","2"," ",
    "F","R","O","M"," ","m","3">>

SessionLexicon == { <<"a">>, <<"'","x","'">>, <<"-","-","c">> }

\* an identifier of the input that has the form of a placeholder
PlaceholderLike == <<"m", "2">>

\* two different fragments for the two lines of a statement, each kind of
\* fragment once on the first line and once on the second
FragmentPairs ==
  { << <<"a">>, <<"'","x","'">> >>,
    << <<"'","x","'">>, <<"-","-","c">> >>,
    << <<"-","-","c">>, <<"a">> >> }

\* statements of one fragment, or of two different ones on two lines
Statements ==
  SessionLexicon
    \cup { p[1] \o <<"\n">> \o p[2] : p \in FragmentPairs }
    \cup { ExampleSelect, PlaceholderLike, PlaceholderLike \o <<"\n", "a">> }

MaxCalls == 2

SessionInit ==
  /\ \E existing_mapping \in { <<>>, SeedIdentifier } : Construct(existing_mapping)
  /\ NoUnmasker /\ NoTokenizer /\ NoHeap /\ NoCsv

EncodeNext ==
  /\ calls < MaxCalls
  /\ \E s \in Statements, reset_mapping \in BOOLEAN : Encode(s, reset_mapping)
  /\ UNCHANGED <<unmasker_vars, tokenizer_vars, csv_vars, heap_vars>>

SessionNext ==
  \/ EncodeNext
  \/ Reset
  \/ DecodeReturned
  \/ DecodeEarlier

SpecSession == SessionInit /\ [][SessionNext]_vars

----------------------------------------------------------------------------
(* What the properties below speak about.                                  *)

Tokens == Tokenize(sql)
Digits(s) == SelectSeq(s, IsDigit)
\* the number a placeholder carries
NumberOf(placeholder) == DigitsValue(Digits(placeholder))
Injective(d) ==
  \A i, j \in DOMAIN d : i # j => d[i].k # d[j].k /\ d[i].v # d[j].v
\* the session of the instance began with an empty mapping
FromEmpty == existing = <<>> \/ was_reset
InKeywordTable(text) == UpperStr(text) \in Keywords

\* the maskable fragments of one token, in order: a comment or a string
\* literal as a whole, the non-keyword parts of a non-keyword identifier
PartsOf(token) == Split(token.value, ".")
MaskedPartIndexes(token) ==
  { j \in DOMAIN PartsOf(token) : ~InKeywordTable(PartsOf(token)[j]) }
RECURSIVE SeqOfSet(_)
SeqOfSet(S) ==
  IF S = {} THEN <<>>
  ELSE LET least == CHOOSE x \in S : \A y \in S : x <= y
       IN  <<least>> \o SeqOfSet(S \ {least})
TokenFragments(token) ==
  IF token.type \in {"COMMENT", "STRING"}
  THEN << [text |-> token.value, kind |-> token.type] >>
  ELSE IF token.type = "IDENTIFIER" /\ ~InKeywordTable(token.value)
  THEN LET idx == SeqOfSet(MaskedPartIndexes(token))
       IN  [n \in DOMAIN idx |-> [text |-> PartsOf(token)[idx[n]], kind |-> "IDENTIFIER"]]
  ELSE <<>>
\* what encode put out for those fragments: the piece of the token, or the
\* parts of the piece at the places of the non-keyword parts
TokenOutputs(token, piece) ==
  IF token.type \in {"COMMENT", "STRING"} THEN <<piece>>
  ELSE IF token.type = "IDENTIFIER" /\ ~InKeywordTable(token.value)
  THEN LET idx == SeqOfSet(MaskedPartIndexes(token))
           out == Split(piece, ".")
       IN  [n \in DOMAIN idx |-> IF idx[n] \in DOMAIN out THEN out[idx[n]] ELSE <<"?">>]
  ELSE <<>>
RECURSIVE Flatten(_)
Flatten(seqs) == IF seqs = <<>> THEN <<>> ELSE Head(seqs) \o Flatten(Tail(seqs))
\* the maskable fragments of the encoded statement, and the output for each
Fragments ==
  LET tokens == Tokens
  IN  Flatten([i \in DOMAIN tokens |-> TokenFragments(tokens[i])])
Outputs ==
  LET tokens == Tokens
  IN  Flatten([i \in DOMAIN tokens |->
                 IF i \in DOMAIN masked_tokens
                 THEN TokenOutputs(tokens[i], masked_tokens[i]) ELSE <<>>])
OccurrencesIn(frags, text) == Cardinality({ i \in DOMAIN frags : frags[i].text = text })

----------------------------------------------------------------------------
(* C1: for every SQL string s, encoding s on a fresh SQLMasker and decoding *)
(* the returned text with the returned mapping gives back exactly s.       *)
C1_RoundTrip ==
  (op = "decode" /\ existing = <<>>) => restored = sql

----------------------------------------------------------------------------
(* C2: after any sequence of encode calls of a session that began with an  *)
(* empty mapping, the mapping is one-to-one: no original has two entries   *)
(* and no two originals share a placeholder.                               *)
C2_OneToOne == FromEmpty => Injective(mapping)

C2_Witness ==
  /\ existing = <<>>
  /\ ~was_reset
  /\ calls >= 2
  /\ Len(mapping) >= 3

----------------------------------------------------------------------------
----------------------------------------------------------------------------
(* C4: an Identifier token whose upper-cased text is in the keyword table  *)
(* is emitted unchanged, in its own case, and encode creates no mapping    *)
(* entry for it.                                                           *)
C4_KeywordsKept ==
  op = "encode" =>
    LET tokens == Tokens
    IN  /\ Len(masked_tokens) = Len(tokens)
        /\ \A i \in DOMAIN tokens :
             (tokens[i].type = "IDENTIFIER" /\ InKeywordTable(tokens[i].value)) =>
               /\ masked_tokens[i] = tokens[i].value
               /\ HasKey(mapping, tokens[i].value)
                    => HasKey(loop_start.mapping, tokens[i].value)

C4_Witness ==
  /\ op = "encode"
  /\ Len(mapping) > Len(loop_start.mapping)
  /\ LET tokens == Tokens
     IN  \E i \in DOMAIN tokens :
           /\ tokens[i].type = "IDENTIFIER"
           /\ InKeywordTable(tokens[i].value)
           /\ tokens[i].value \notin Keywords
           /\ masked_tokens[i] = tokens[i].value

----------------------------------------------------------------------------
(* C5: a dotted Identifier token that is not a keyword is masked part by   *)
(* part: a keyword part is kept, every other part is replaced by the m<N>  *)
(* placeholder the mapping holds under the part's text, and the parts are  *)
(* joined by dots again.                                                   *)
IsQualified(token) ==
  /\ token.type = "IDENTIFIER"
  /\ ~InKeywordTable(token.value)
  /\ Len(PartsOf(token)) > 1

C5_QualifiedNames ==
  op = "encode" =>
    LET tokens == Tokens
    IN  \A i \in DOMAIN tokens :
          IsQualified(tokens[i]) =>
            LET parts == PartsOf(tokens[i])
                out == Split(masked_tokens[i], ".")
            IN  /\ Len(out) = Len(parts)
                /\ \A j \in DOMAIN parts :
                     IF InKeywordTable(parts[j])
                     THEN out[j] = parts[j]
                     ELSE /\ HasKey(mapping, parts[j])
                          /\ out[j] = Lookup(mapping, parts[j])
                          /\ out[j] = <<"m">> \o Dec(NumberOf(out[j]))
                          /\ \A k \in DOMAIN parts :
                               (parts[k] # parts[j] /\ ~InKeywordTable(parts[k]))
                                 => out[k] # out[j]

C5_Witness ==
  /\ op = "encode"
  /\ LET tokens == Tokens
     IN  \E i \in DOMAIN tokens :
           /\ IsQualified(tokens[i])
           /\ \E j, k \in DOMAIN PartsOf(tokens[i]) :
                /\ InKeywordTable(PartsOf(tokens[i])[j])
                /\ ~InKeywordTable(PartsOf(tokens[i])[k])
                /\ j < k

----------------------------------------------------------------------------
(* C6: an instance constructed with an existing mapping holds every        *)
(* supplied pair, and encode emits the supplied placeholder for a supplied *)
(* original instead of assigning a new number.                             *)
C6_MappingContinued ==
  /\ op = "init" => mapping = existing
  /\ ~was_reset =>
       \A i \in DOMAIN existing :
         /\ HasKey(mapping, existing[i].k)
         /\ Lookup(mapping, existing[i].k) = existing[i].v
  /\ (op = "encode" /\ ~was_reset) =>
       LET frags == Fragments
           outs == Outputs
       IN  /\ Len(outs) = Len(frags)
           /\ \A i \in DOMAIN frags :
                HasKey(existing, frags[i].text) =>
                  outs[i] = Lookup(existing, frags[i].text)
           /\ (\A i \in DOMAIN frags : HasKey(existing, frags[i].text)) =>
                counter = loop_start.counter

C6_Witness ==
  /\ op = "encode"
  /\ existing = SeedIdentifier
  /\ sql = <<"a", " ", "b">>
  /\ masked_sql = <<"m", "5", " ", "m", "6">>

----------------------------------------------------------------------------
(* C7: constructed with an existing mapping, the counter is one more than  *)
(* the largest number in any supplied placeholder, of whichever form, so   *)
(* every placeholder assigned later carries a larger number than all the   *)
(* supplied ones and equals none of them.                                  *)
SuppliedNumbers == { NumberOf(existing[i].v) : i \in DOMAIN existing }

C7_CounterContinued ==
  /\ (op = "init" /\ existing # <<>>) =>
       /\ counter - 1 \in SuppliedNumbers
       /\ \A n \in SuppliedNumbers : n <= counter - 1
  /\ ~was_reset =>
       \A i \in DOMAIN mapping :
         i > Len(existing) =>
           /\ \A n \in SuppliedNumbers : NumberOf(mapping[i].v) > n
           /\ \A j \in DOMAIN existing : mapping[i].v # existing[j].v

C7_Witness ==
  /\ op = "encode"
  /\ existing = SeedLineComment
  /\ Len(mapping) > Len(existing)
  /\ counter > 4

----------------------------------------------------------------------------
(* C8: a new identifier part gets m<N>, a String token 'm<N>', a Comment   *)
(* token starting with -- gets --COMMENT<N>, any other Comment token       *)
(* /*COMMENT<N>*/, N being the value of the one counter, which goes up by  *)
(* one with every new entry whatever its kind.                             *)
KindOf(frags, text) ==
  frags[CHOOSE i \in DOMAIN frags : frags[i].text = text].kind

PlaceholderFor(kind, text, n) ==
  IF kind = "IDENTIFIER" THEN <<"m">> \o Dec(n)
  ELSE IF kind = "STRING" THEN <<"'", "m">> \o Dec(n) \o <<"'">>
  ELSE IF Len(text) >= 2 /\ text[1] = "-" /\ text[2] = "-"
  THEN <<"-","-","C","O","M","M","E","N","T">> \o Dec(n)
  ELSE <<"/","*","C","O","M","M","E","N","T">> \o Dec(n) \o <<"*", "/">>

C8_PlaceholderFormats ==
  op = "encode" =>
    LET frags == Fragments
        known == Len(loop_start.mapping)
    IN  /\ counter = loop_start.counter + (Len(mapping) - known)
        /\ \A i \in DOMAIN mapping :
             i > known =>
               /\ \E j \in DOMAIN frags : frags[j].text = mapping[i].k
               /\ mapping[i].v =
                    PlaceholderFor(KindOf(frags, mapping[i].k), mapping[i].k,
                                   loop_start.counter + (i - known - 1))

C8_Witness ==
  /\ op = "encode"
  /\ existing = <<>>
  /\ LET frags == Fragments
     IN  /\ Len(mapping) = 3
         /\ KindOf(frags, mapping[1].k) = "COMMENT"
         /\ mapping[1].v = <<"/","*","C","O","M","M","E","N","T","1","*","/">>
         /\ KindOf(frags, mapping[2].k) = "STRING"
         /\ mapping[2].v = <<"'","m","2","'">>
         /\ KindOf(frags, mapping[3].k) = "COMMENT"
         /\ mapping[3].v = <<"-","-","C","O","M","M","E","N","T","3">>

----------------------------------------------------------------------------
(* C9: in a session that began with an empty mapping, placeholders are     *)
(* numbered without gaps in the order the fragments are first seen: the    *)
(* k-th entry of the mapping carries number k, the counter is the number   *)
(* of entries plus one, and SELECT id, name FROM users becomes             *)
(* SELECT m1, m2 FROM m3.                                                  *)
\* the texts of frags that are not keys of known, each once, in first-seen order
RECURSIVE FirstSeen(_, _)
FirstSeen(frags, known) ==
  IF frags = <<>> THEN <<>>
  ELSE IF HasKey(known, frags[1].text)
  THEN FirstSeen(Tail(frags), known)
  ELSE <<frags[1].text>>
         \o FirstSeen(Tail(frags), Append(known, [k |-> frags[1].text, v |-> <<>>]))

C9_FirstSeenOrder ==
  /\ FromEmpty =>
       /\ counter = Len(mapping) + 1
       /\ \A i \in DOMAIN mapping : NumberOf(mapping[i].v) = i
  /\ op = "encode" =>
       Keys(mapping) = Keys(loop_start.mapping) \o FirstSeen(Fragments, loop_start.mapping)
  /\ (op = "encode" /\ sql = ExampleSelect /\ loop_start.mapping = <<>>) =>
       /\ masked_sql = ExampleSelectMasked
       /\ mapping = << [k |-> <<"i","d">>, v |-> <<"m","1">>],
                       [k |-> <<"n","a","m","e">>, v |-> <<"m","2">>],
                       [k |-> <<"u","s","e","r","s">>, v |-> <<"m","3">>] >>

C9_Witness ==
  /\ op = "encode"
  /\ was_reset
  /\ calls >= 2
  /\ sql = ExampleSelect
  /\ Len(loop_start.mapping) >= 2
  /\ counter = 6

----------------------------------------------------------------------------
(* C10: SQLMasker offers encode_comments_only(sql), which replaces only    *)
(* the Comment tokens and leaves every other token as it is, and the       *)
(* mask-comments command gets the masked text of every non-blank row from  *)
(* it.                                                                     *)
\* the statement with its Comment tokens alone replaced
CommentsOnlyMasked(s) ==
  LET tokens == Tokenize(s)
      only == [i \in DOMAIN tokens |->
                 IF tokens[i].type = "COMMENT" THEN tokens[i]
                 ELSE [type |-> "OTHER", value |-> tokens[i].value]]
  IN  Join(EncodeTokens([counter |-> 1, mapping |-> <<>>], only).masked_tokens, <<>>)

C10_CommentsOnly ==
  (op = "mask_comments" /\ Strip(sql) # <<>>) =>
    /\ error = "none"
    /\ masked_sql = CommentsOnlyMasked(sql)

----------------------------------------------------------------------------
(* C11: reset() leaves an empty mapping and the counter at 1, and from     *)
(* then on (also after encode with reset_mapping = True) the instance      *)
(* holds the counter and mapping, and returns the masked text, of a newly  *)
(* constructed SQLMasker() given the same encode calls, whatever mapping   *)
(* the instance was constructed with.                                      *)
C11_ResetIsFresh ==
  /\ op = "reset" => (counter = 1 /\ mapping = <<>>)
  /\ was_reset =>
       /\ counter = fresh.counter
       /\ mapping = fresh.mapping
       /\ op = "encode" =>
            /\ masked_sql = fresh.masked_sql
            /\ session[Len(session)].mapping = fresh.mapping

C11_Witness ==
  /\ existing = SeedIdentifier
  /\ was_reset
  /\ op = "encode"
  /\ Len(session) = 2
  /\ ~session[2].reset_mapping
  /\ HasKey(mapping, <<"a">>)
  /\ Lookup(mapping, <<"a">>) # Lookup(existing, <<"a">>)

----------------------------------------------------------------------------
(* C12: a step that is not a reset (reset() or encode with reset_mapping   *)
(* = True) keeps every entry of the mapping with its placeholder and does  *)
(* not lower the counter.                                                  *)
Extends(later, earlier) ==
  \A i \in DOMAIN earlier :
    /\ HasKey(later, earlier[i].k)
    /\ Lookup(later, earlier[i].k) = earlier[i].v

C12_AppendOnly ==
  [][ LET resetting ==
            \/ op' = "reset"
            \/ calls' = calls + 1 /\ session'[Len(session')].reset_mapping
      IN  ~resetting =>
            /\ Extends(mapping', mapping)
            /\ Len(mapping') >= Len(mapping)
            /\ counter' >= counter ]_vars

C12_Witness ==
  /\ op = "encode"
  /\ Len(session) = 2
  /\ Len(session[1].mapping) >= 1
  /\ Len(session[2].mapping) > Len(session[1].mapping)
  /\ \E i \in DOMAIN Fragments : HasKey(session[1].mapping, Fragments[i].text)

----------------------------------------------------------------------------
(* C13: over the statements encoded one after another without reset, an    *)
(* original has the same placeholder in every returned mapping that holds  *)
(* it, and decode of any statement's masked text with the mapping the last *)
(* call returned gives that statement back.                                *)
C13_ConsistentSession ==
  /\ \A i, j \in DOMAIN session :
       \A n \in DOMAIN session[i].mapping :
         HasKey(session[j].mapping, session[i].mapping[n].k) =>
           Lookup(session[j].mapping, session[i].mapping[n].k)
             = session[i].mapping[n].v
  /\ (op = "decode" /\ decoded \in DOMAIN session) =>
       restored = session[decoded].sql

----------------------------------------------------------------------------
(* C14: after encode, no non-keyword identifier name, string literal text  *)
(* or comment text of the input is found in the masked output.             *)
C14_NoOriginalLeft ==
  op = "encode" =>
    LET frags == Fragments
    IN  \A i \in DOMAIN frags : ~Contains(masked_sql, frags[i].text)

----------------------------------------------------------------------------
(* Statements made of the words test_additional_sql_keywords and           *)
(* test_comprehensive_sql_keywords expect encode to keep.                  *)

LowerChar(c) ==
  IF \E i \in DOMAIN UpperLetters : UpperLetters[i] = c
  THEN LowerLetters[CHOOSE i \in DOMAIN UpperLetters : UpperLetters[i] = c]
  ELSE c
\* str.lower
LowerStr(s) == [i \in DOMAIN s |-> LowerChar(s[i])]

AdditionalKeywords ==
  { <<"F","U","L","L">>, <<"U","N","P","I","V","O","T">>,
    <<"D","E","C","I","M","A","L">>, <<"I","N","T","E","G","E","R">>,
    <<"R","O","W">>, <<"R","O","W","S">>,
    <<"P","R","E","C","E","D","I","N","G">>,
    <<"C","U","R","R","E","N","T">>,
    <<"U","N","B","O","U","N","D","E","D">>,
    <<"R","E","C","U","R","S","I","V","E">>,
    <<"N","A","T","U","R","A","L">>, <<"L","A","T","E","R","A","L">>,
    <<"U","S","I","N","G">>, <<"W","I","N","D","O","W">>,
    <<"E","X","C","L","U","D","E">>, <<"I","G","N","O","R","E">>,
    <<"N","U","L","L","S">>, <<"F","E","T","C","H">>,
    <<"F","I","R","S","T">>, <<"O","N","L","Y">> }

\* each word in upper and in lower case, alone, before and after an identifier
KeywordStatements ==
  LET words == AdditionalKeywords \cup { LowerStr(w) : w \in AdditionalKeywords }
  IN  words \cup { w \o <<" ", "a">> : w \in words }
            \cup { <<"a", " ">> \o w : w \in words }

EncodeKeywords ==
  /\ op = "init"
  /\ \E s \in KeywordStatements : Encode(s, FALSE)
  /\ UNCHANGED <<unmasker_vars, tokenizer_vars, csv_vars, heap_vars>>

KeywordsInit == Construct(<<>>) /\ NoUnmasker /\ NoTokenizer /\ NoHeap /\ NoCsv

KeywordsNext ==
  \/ EncodeKeywords
  \/ DecodeReturned

SpecKeywords == KeywordsInit /\ [][KeywordsNext]_vars

(* C15: FULL, UNPIVOT, DECIMAL, INTEGER, ROW, ROWS, PRECEDING, CURRENT,    *)
(* UNBOUNDED, RECURSIVE, NATURAL, LATERAL, USING, WINDOW, EXCLUDE, IGNORE, *)
(* NULLS, FETCH, FIRST and ONLY, in upper or lower case, are emitted by    *)
(* encode as they are and get no mapping entry.                            *)
C15_AdditionalKeywords ==
  op = "encode" =>
    LET tokens == Tokens
    IN  \A i \in DOMAIN tokens :
          (tokens[i].type = "IDENTIFIER"
             /\ UpperStr(tokens[i].value) \in AdditionalKeywords) =>
            /\ masked_tokens[i] = tokens[i].value
            /\ ~HasKey(mapping, tokens[i].value)

----------------------------------------------------------------------------
(* A SQLUnmasker constructed from a mapping and asked to unmask texts, as  *)
(* unmask_csv and unmask_all_columns do for the cells of a file.           *)

\* mappings an encoder wrote: one identifier; the identifier m2 and then a
\* (encode of "m2\na"); an identifier, a string literal and a line comment
MappingOne == << [k |-> <<"a">>, v |-> <<"m","1">>] >>
MappingChain ==
  << [k |-> <<"m","2">>, v |-> <<"m","1">>],
     [k |-> <<"a">>, v |-> <<"m","2">>] >>
MappingKinds ==
  << [k |-> <<"a">>, v |-> <<"m","1">>],
     [k |-> <<"'","x","'">>, v |-> <<"'","m","2","'">>],
     [k |-> <<"-","-","c">>, v |-> <<"-","-","C","O","M","M","E","N","T","3">>] >>
UnmaskerMappings == { <<>>, MappingOne, MappingChain, MappingKinds }

\* the pieces the texts are concatenated from
Pieces ==
  { <<"m","1">>, <<"m","2">>, <<"2">>, <<"x">>, <<" ">>, <<"'">>,
    <<"-","-","C","O","M","M","E","N","T","3">> }

MaxPieces == 3

RECURSIVE TextsOf(_)
TextsOf(n) ==
  IF n = 0 THEN { <<>> }
  ELSE LET shorter == TextsOf(n - 1)
       IN  shorter \cup { t \o p : t \in shorter, p \in Pieces }

Texts == TextsOf(MaxPieces)

\* SQLUnmasker(mapping) for a dict
ConstructUnmasker(m) ==
  /\ unmasker_op = "init"
  /\ unmasker_mapping = m
  /\ unmasker_rev_mapping = (IF m # <<>> THEN RevMapping(m) ELSE <<>>)
  /\ direct_replacements =
       (IF m # <<>> THEN PrecomputeReplacements(<<>>, RevMapping(m)) ELSE <<>>)
  /\ unmask_text = <<>>
  /\ unmask_result = <<>>

\* unmasker.unmask(t)
UnmaskCall(t) ==
  /\ unmask_text' = t
  /\ unmask_result' = Unmask(t, unmasker_rev_mapping, direct_replacements)
  /\ unmasker_op' = "unmask"
  /\ UNCHANGED <<unmasker_mapping, unmasker_rev_mapping, direct_replacements>>

UnmaskInit ==
  /\ Construct(<<>>)
  /\ \E m \in UnmaskerMappings : ConstructUnmasker(m)
  /\ NoTokenizer /\ NoHeap /\ NoCsv

UnmaskText ==
  /\ unmasker_op = "init"
  /\ \E t \in Texts : UnmaskCall(t)
  /\ UNCHANGED <<masker_vars, tokenizer_vars, csv_vars, heap_vars>>

UnmaskNext == UnmaskText

SpecUnmask == UnmaskInit /\ [][UnmaskNext]_vars

----------------------------------------------------------------------------
(* C16: unmask of a text that is, as a whole, a placeholder of the mapping *)
(* returns the original the mapping holds for that placeholder.            *)
C16_ExactMatch ==
  unmasker_op = "unmask" =>
    \A i \in DOMAIN unmasker_mapping :
      unmasker_mapping[i].v = unmask_text =>
        unmask_result = unmasker_mapping[i].k

C16_Witness ==
  /\ unmasker_op = "unmask"
  /\ unmasker_mapping = MappingChain
  /\ unmask_text = <<"m","1">>
  /\ unmask_result = <<"m","2">>

----------------------------------------------------------------------------
(* C17: unmask replaces an occurrence of a placeholder only when the       *)
(* character before it and the character after it are not alphanumeric or  *)
(* the text ends there, so a text in which no placeholder occurs as such a *)
(* whole token (m12, xm1) is returned as it is.                            *)
WholeTokenAt(s, i, p) ==
  /\ MatchesAt(s, p, i)
  /\ (i = 1 \/ ~IsAlnum(s[i - 1]))
  /\ (i + Len(p) > Len(s) \/ ~IsAlnum(s[i + Len(p)]))

HasWholeToken(s) ==
  \E n \in DOMAIN direct_replacements, i \in DOMAIN s :
    WholeTokenAt(s, i, direct_replacements[n].k)

C17_WholeTokenOnly ==
  (unmasker_op = "unmask" /\ ~HasWholeToken(unmask_text)) =>
    unmask_result = unmask_text

----------------------------------------------------------------------------
(* csv_processor.main running the mask, mask-comments or unmask command on *)
(* one input file.                                                         *)

\* --sql-column / --masked-column: the column the command is to read
RequestedColumn == "sql"

\* reader.fieldnames of the input file: <<>> for a file without a header
\* line (reader.fieldnames is None), else the names of its columns
Headers == { <<>>, <<"id">>, <<"id", "sql">> }

\* what a row holds in the last column of the file
CellValues == { <<>>, <<" ">>, <<"a">>, <<"m", "1">> }

MaxRows == 2

RECURSIVE RowsOf(_)
RowsOf(n) ==
  IF n = 0 THEN { <<>> }
  ELSE LET fewer == RowsOf(n - 1)
       IN  fewer \cup { Append(r, c) : r \in fewer, c \in CellValues }

\* ColumnCheck with the validation left out
ColumnCheckSkipped(cmd, names, column) == "none"

\* the validation of the requested column against the header: the exception
\* it raises, "none" for none
ColumnCheck(cmd, names, column) ==
  IF cmd = "unmask"
  THEN \* if not fieldnames / if masked_column not in fieldnames
       IF names = <<>> \/ column \notin Range(names) THEN "ValueError" ELSE "none"
  ELSE \* if sql_column not in reader.fieldnames
       IF names = <<>> THEN "TypeError"
       ELSE IF column \notin Range(names) THEN "ValueError"
       ELSE "none"

\* main has parsed the arguments and the command has created its engine:
\* SQLMasker() for mask and mask-comments, SQLUnmasker(mapping_file) for unmask
CsvInit ==
  /\ Construct(<<>>)
  /\ NoTokenizer /\ NoHeap
  /\ command \in {"mask", "mask-comments", "unmask"}
  /\ IF command = "unmask" THEN ConstructUnmasker(MappingOne) ELSE NoUnmasker
  /\ csv_pc = "start"
  /\ fieldnames \in Headers
  /\ rows \in (IF fieldnames = <<>> THEN { <<>> } ELSE RowsOf(MaxRows))
  /\ row_index = 0
  /\ out_rows = <<>>
  /\ written = {}
  /\ raised = "none"
  /\ stderr = "none"
  /\ exit_status = -1

\* the input file is read and the requested column validated
CsvReadInput ==
  /\ csv_pc = "start"
  /\ raised' = ColumnCheck(command, fieldnames, RequestedColumn)
  /\ csv_pc' = IF raised' = "none" THEN "rows" ELSE "raised"
  /\ UNCHANGED <<command, fieldnames, rows, row_index, out_rows, written,
                 stderr, exit_status>>
  /\ UNCHANGED <<masker_vars, unmasker_vars, tokenizer_vars, heap_vars>>

\* one iteration of the loop over rows
CsvRow ==
  /\ csv_pc = "rows"
  /\ row_index < Len(rows)
  /\ LET cell == rows[row_index + 1]
     IN  \/ /\ command = "mask"
            /\ IF cell # <<>> /\ Strip(cell) # <<>>
               THEN /\ Encode(cell, FALSE)
                    /\ out_rows' = Append(out_rows, masked_sql')
               ELSE /\ out_rows' = Append(out_rows, <<>>)
                    /\ UNCHANGED masker_vars
            /\ row_index' = row_index + 1
            /\ UNCHANGED <<csv_pc, raised, unmasker_vars>>
         \/ /\ command = "mask-comments"
            /\ MaskCommentsOnlyRow(cell)
            /\ IF error' = "none"
               THEN /\ out_rows' = Append(out_rows, masked_sql')
                    /\ row_index' = row_index + 1
                    /\ UNCHANGED <<csv_pc, raised>>
               ELSE /\ raised' = error'
                    /\ csv_pc' = "raised"
                    /\ UNCHANGED <<out_rows, row_index>>
            /\ UNCHANGED unmasker_vars
         \/ /\ command = "unmask"
            /\ IF cell = <<>>
               THEN /\ out_rows' = Append(out_rows, <<>>)
                    /\ UNCHANGED unmasker_vars
               ELSE /\ UnmaskCall(cell)
                    /\ out_rows' = Append(out_rows, unmask_result')
            /\ row_index' = row_index + 1
            /\ UNCHANGED <<csv_pc, raised, masker_vars>>
  /\ UNCHANGED <<command, fieldnames, rows, written, stderr, exit_status>>
  /\ UNCHANGED <<tokenizer_vars, heap_vars>>

\* the output CSV is written
CsvWriteOutput ==
  /\ csv_pc = "rows"
  /\ row_index = Len(rows)
  /\ written' = written \cup {"output_file"}
  /\ csv_pc' = IF command = "unmask" THEN "done" ELSE "mapping"
  /\ UNCHANGED <<command, fieldnames, rows, row_index, out_rows, raised,
                 stderr, exit_status>>
  /\ UNCHANGED <<masker_vars, unmasker_vars, tokenizer_vars, heap_vars>>

\* json.dump(masker._mapping, f)
CsvWriteMapping ==
  /\ csv_pc = "mapping"
  /\ written' = written \cup {"mapping_file"}
  /\ csv_pc' = "done"
  /\ UNCHANGED <<command, fieldnames, rows, row_index, out_rows, raised,
                 stderr, exit_status>>
  /\ UNCHANGED <<masker_vars, unmasker_vars, tokenizer_vars, heap_vars>>

\* main: the command returns, or its exception is reported and the run
\* exits with status 1
CsvExit ==
  /\ csv_pc \in {"done", "raised"}
  /\ IF csv_pc = "raised"
     THEN stderr' = raised /\ exit_status' = 1
     ELSE stderr' = stderr /\ exit_status' = 0
  /\ csv_pc' = "exited"
  /\ UNCHANGED <<command, fieldnames, rows, row_index, out_rows, written, raised>>
  /\ UNCHANGED <<masker_vars, unmasker_vars, tokenizer_vars, heap_vars>>

CsvNext ==
  \/ CsvReadInput
  \/ CsvRow
  \/ CsvWriteOutput
  \/ CsvWriteMapping
  \/ CsvExit

SpecCsv == CsvInit /\ [][CsvNext]_vars

----------------------------------------------------------------------------
(* C18: when the requested column is not among the headers of the input,   *)
(* the mask, mask-comments and unmask commands raise before a row is       *)
(* encoded or unmasked and before the output or the mapping file is        *)
(* written, and main prints the error on stderr and exits with status 1.   *)
ColumnMissing == fieldnames = <<>> \/ RequestedColumn \notin Range(fieldnames)

C18_MissingColumnFailsFast ==
  (command # "none" /\ ColumnMissing) =>
    /\ csv_pc \in {"start", "raised", "exited"}
    /\ row_index = 0
    /\ out_rows = <<>>
    /\ calls = 0
    /\ op = "init"
    /\ unmasker_op # "unmask"
    /\ written = {}
    /\ csv_pc # "start" => raised \in {"ValueError", "TypeError"}
    /\ csv_pc = "exited" => (stderr = raised /\ exit_status = 1)

C18_Witness ==
  /\ csv_pc = "exited"
  /\ command = "unmask"
  /\ fieldnames = <<"id">>
  /\ Len(rows) = 2
  /\ rows[1] = <<"m", "1">>
  /\ exit_status = 1

----------------------------------------------------------------------------
(* One call of SQLMasker._tokenize, one iteration of its while loop per    *)
(* step.                                                                   *)

\* _tokenize(s) is entered: tokens = [], remaining = sql
TokenizeCall ==
  /\ tokenize_pc = "idle"
  /\ \E s \in Inputs :
       /\ tokenize_sql' = s
       /\ remaining' = s
  /\ tokenized' = <<>>
  /\ tokenize_pc' = "loop"
  /\ UNCHANGED <<masker_vars, unmasker_vars, csv_vars, heap_vars>>

\* TokenizeStep with remaining = remaining[1:] whatever the token
TokenizeStepOneCharacter ==
  /\ tokenize_pc = "loop"
  /\ remaining # <<>>
  /\ tokenized' = Append(tokenized, NextToken(remaining))
  /\ remaining' = DropTo(remaining, 2)
  /\ UNCHANGED <<tokenize_pc, tokenize_sql>>
  /\ UNCHANGED <<masker_vars, unmasker_vars, csv_vars, heap_vars>>

\* the body of 'while remaining': the first pattern that matches, or one
\* character as OTHER
TokenizeStep ==
  /\ tokenize_pc = "loop"
  /\ remaining # <<>>
  /\ LET t == NextToken(remaining)
     IN  /\ tokenized' = Append(tokenized, t)
         /\ remaining' = DropTo(remaining, Len(t.value) + 1)
  /\ UNCHANGED <<tokenize_pc, tokenize_sql>>
  /\ UNCHANGED <<masker_vars, unmasker_vars, csv_vars, heap_vars>>

\* remaining is empty: return tokens
TokenizeReturn ==
  /\ tokenize_pc = "loop"
  /\ remaining = <<>>
  /\ tokenize_pc' = "returned"
  /\ UNCHANGED <<tokenize_sql, remaining, tokenized>>
  /\ UNCHANGED <<masker_vars, unmasker_vars, csv_vars, heap_vars>>

TokenizeInit == Construct(<<>>) /\ NoUnmasker /\ NoTokenizer /\ NoHeap /\ NoCsv

TokenizeNext ==
  \/ TokenizeCall
  \/ TokenizeStep
  \/ TokenizeReturn

SpecTokenize == TokenizeInit /\ [][TokenizeNext]_vars

\* the loop runs on: no other thread, nothing to wait for
SpecTokenizeFair == SpecTokenize /\ WF_vars(TokenizeNext)

----------------------------------------------------------------------------
(* C19: the texts of the tokens _tokenize returns, concatenated in order,  *)
(* are the input, and no token text is empty. (During the loop: the texts  *)
(* so far followed by remaining are the input.)                            *)
TokenTexts(toks) == [i \in DOMAIN toks |-> toks[i].value]

C19_Lossless ==
  /\ \A i \in DOMAIN tokenized : tokenized[i].value # <<>>
  /\ Flatten(TokenTexts(tokenized)) \o remaining = tokenize_sql
  /\ tokenize_pc = "returned" =>
       /\ Flatten(TokenTexts(tokenized)) = tokenize_sql
       /\ tokenized = Tokenize(tokenize_sql)

C19_Witness ==
  /\ tokenize_pc = "returned"
  /\ Len(tokenized) = 3
  /\ tokenized[1].type = "OTHER"
  /\ tokenized[2].type = "IDENTIFIER"
  /\ Len(tokenized[2].value) = 2
  /\ tokenized[3].type = "COMMENT"

----------------------------------------------------------------------------
(* C20: every iteration of the scan loop takes at least one character off  *)
(* remaining, exactly one as an Other token when no pattern matches, so    *)
(* the loop never stops on an input it cannot handle, runs at most as many *)
(* iterations as the input has characters, and returns.                    *)
NoPatternMatches(r) ==
  /\ MatchBlockComment(r) = 0
  /\ MatchLineComment(r) = 0
  /\ MatchString(r) = 0
  /\ MatchIdentifier(r) = 0
  /\ MatchWhitespace(r) = 0
  /\ MatchPunctuation(r) = 0

C20_Progress ==
  /\ [][ tokenize_pc = "loop" =>
           IF remaining # <<>>
           THEN /\ Len(remaining') < Len(remaining)
                /\ Len(tokenized') = Len(tokenized) + 1
                /\ NoPatternMatches(remaining) =>
                     /\ Len(remaining') = Len(remaining) - 1
                     /\ tokenized'[Len(tokenized')] =
                          [type |-> "OTHER", value |-> <<remaining[1]>>]
           ELSE tokenize_pc' = "returned" ]_vars
  /\ [](Len(tokenized) <= Len(tokenize_sql))
  /\ (tokenize_pc = "loop") ~> (tokenize_pc = "returned")

C20_Witness ==
  /\ tokenize_pc = "returned"
  /\ Len(tokenize_sql) = 3
  /\ Len(tokenized) = 3
  /\ \E i \in DOMAIN tokenized : tokenized[i].type = "OTHER"

----------------------------------------------------------------------------
(* _tokenize on every short text over the characters the patterns tell     *)
(* apart: the comment and string delimiters, a letter and a newline.       *)

ScanChars == { "/", "*", "-", "'", "a", "\n" }

MaxScan == 4

\* the texts of at most n characters
RECURSIVE ScanTexts(_)
ScanTexts(n) ==
  IF n = 0 THEN { <<>> }
  ELSE LET shorter == ScanTexts(n - 1)
       IN  shorter \cup { t \o <<c>> : t \in shorter, c \in ScanChars }

\* _tokenize(s) is entered: tokens = [], remaining = sql
ScanCall ==
  /\ tokenize_pc = "idle"
  /\ \E s \in ScanTexts(MaxScan) :
       /\ tokenize_sql' = s
       /\ remaining' = s
  /\ tokenized' = <<>>
  /\ tokenize_pc' = "loop"
  /\ UNCHANGED <<masker_vars, unmasker_vars, csv_vars, heap_vars>>

ScanNext ==
  \/ ScanCall
  \/ TokenizeStep
  \/ TokenizeReturn

SpecScan == TokenizeInit /\ [][ScanNext]_vars

\* the patterns list: the token type of each entry, in order
PatternTypes ==
  <<"COMMENT", "COMMENT", "STRING", "IDENTIFIER", "WHITESPACE", "PUNCTUATION">>

\* re.match(patterns[n], r): the length of the match, 0 for None
MatchLength(n, r) ==
  CASE n = 1 -> MatchBlockComment(r)
    [] n = 2 -> MatchLineComment(r)
    [] n = 3 -> MatchString(r)
    [] n = 4 -> MatchIdentifier(r)
    [] n = 5 -> MatchWhitespace(r)
    [] n = 6 -> MatchPunctuation(r)

\* what remaining was when token i was produced
ScanPosition(i) ==
  DropTo(tokenize_sql, Len(Flatten(TokenTexts(SubSeq(tokenized, 1, i - 1)))) + 1)

\* the text up to the end of the line, newline excluded
RECURSIVE UpToNewline(_)
UpToNewline(r) ==
  IF r = <<>> \/ r[1] = "\n" THEN <<>> ELSE <<r[1]>> \o UpToNewline(Tail(r))

----------------------------------------------------------------------------
(* C21: every token is the match of the first pattern of the list (block   *)
(* comment, line comment, string literal, identifier, whitespace,          *)
(* punctuation) that matches at its scan position, or one character as     *)
(* OTHER when none does; text with -- at the scan position gives one       *)
(* COMMENT token running to the end of the line, newline excluded, and a   *)
(* STRING token ends at the first single quote after its opening one.      *)
C21_PatternPriority ==
  \A i \in DOMAIN tokenized :
    LET r == ScanPosition(i)
        t == tokenized[i]
        matching == { n \in DOMAIN PatternTypes : MatchLength(n, r) > 0 }
    IN  /\ matching # {} =>
             \E n \in matching :
               /\ \A k \in matching : n <= k
               /\ t.type = PatternTypes[n]
               /\ t.value = SubSeq(r, 1, MatchLength(n, r))
        /\ matching = {} => t = [type |-> "OTHER", value |-> <<r[1]>>]
        /\ StartsWith(r, <<"-", "-">>) =>
             /\ t = [type |-> "COMMENT", value |-> UpToNewline(r)]
             /\ t.type # "PUNCTUATION"
        /\ t.type = "STRING" =>
             /\ Len(t.value) >= 2
             /\ t.value[1] = "'"
             /\ t.value[Len(t.value)] = "'"
             /\ \A j \in 2..(Len(t.value) - 1) : t.value[j] # "'"

\* --a and a newline: the comment stops before the newline
C21_Witness ==
  /\ tokenize_pc = "returned"
  /\ tokenize_sql = <<"-", "-", "a", "\n">>
  /\ Len(tokenized) = 2
  /\ tokenized[1] = [type |-> "COMMENT", value |-> <<"-", "-", "a">>]
  /\ tokenized[2].type = "WHITESPACE"

----------------------------------------------------------------------------
(* C22: text with /* at the scan position and no */ after it gives one     *)
(* COMMENT token that runs from the /* to the end of the input.            *)
Unterminated(r) ==
  StartsWith(r, <<"/", "*">>) /\ FindFrom(r, <<"*", "/">>, 3) = 0

C22_UnterminatedBlockComment ==
  \A i \in DOMAIN tokenized :
    Unterminated(ScanPosition(i)) =>
      tokenized[i] = [type |-> "COMMENT", value |-> ScanPosition(i)]
----------------------------------------------------------------------------
(* One statement masked by process_csv / encode_sql.py and restored both   *)
(* ways: by SQLMasker.decode and by the SQLUnmasker of the unmask command. *)

\* fragments of the statements: two identifiers, a keyword in mixed case,
\* a digit, a newline, a comma, a double quote, a string literal, a line
\* comment, a line comment holding the text of a placeholder, a block
\* comment
RestoreLexicon ==
  { <<"a">>, <<"b">>, <<"A","s">>, <<"1">>, <<"\n">>, <<",">>, <<"\"">>,
    <<"'","x","'">>, <<"-","-","c">>, <<"-","-","m","1">>,
    <<"/","*","c","*","/">> }

RECURSIVE RestoreTexts(_)
RestoreTexts(n) ==
  IF n = 0 THEN { <<>> }
  ELSE LET shorter == RestoreTexts(n - 1)
       IN  shorter \cup { w \o f : w \in shorter, f \in RestoreLexicon }

\* a mapping of an earlier session whose first entry is a line comment
SeedLineCommentFirst ==
  << [k |-> <<"-","-","m","1">>, v |-> <<"-","-","C","O","M","M","E","N","T","1">>],
     [k |-> <<"a">>, v |-> <<"m","2">>],
     [k |-> <<"c">>, v |-> <<"m","3">>],
     [k |-> <<"d">>, v |-> <<"m","4">>],
     [k |-> <<"e">>, v |-> <<"m","5">>],
     [k |-> <<"f">>, v |-> <<"m","6">>],
     [k |-> <<"g">>, v |-> <<"m","7">>],
     [k |-> <<"h">>, v |-> <<"m","8">>],
     [k |-> <<"i">>, v |-> <<"m","9">>] >>

RestoreSeeds == { <<>>, SeedNine, SeedLineCommentFirst }

RestoreInit ==
  /\ \E existing_mapping \in RestoreSeeds : Construct(existing_mapping)
  /\ NoUnmasker /\ NoTokenizer /\ NoHeap /\ NoCsv

\* masker.encode(sql_query)
EncodeStatement ==
  /\ op = "init"
  /\ \E s \in RestoreTexts(MaxFrags) : Encode(s, FALSE)
  /\ UNCHANGED <<unmasker_vars, tokenizer_vars, csv_vars, heap_vars>>

\* unmask_csv on what process_csv wrote with its SQLMasker():
\* SQLUnmasker(mapping_file), then unmasker.unmask(masked)
UnmaskReturned ==
  /\ op = "decode"
  /\ existing = <<>>
  /\ unmasker_op = "none"
  /\ unmasker_mapping' = mapping
  /\ unmasker_rev_mapping' = (IF mapping # <<>> THEN RevMapping(mapping) ELSE <<>>)
  /\ direct_replacements' =
       (IF mapping # <<>> THEN PrecomputeReplacements(<<>>, RevMapping(mapping))
        ELSE <<>>)
  /\ unmask_text' = masked_sql
  /\ unmask_result' =
       Unmask(masked_sql,
              IF mapping # <<>> THEN RevMapping(mapping) ELSE <<>>,
              IF mapping # <<>> THEN PrecomputeReplacements(<<>>, RevMapping(mapping))
              ELSE <<>>)
  /\ unmasker_op' = "unmask"
  /\ UNCHANGED <<masker_vars, tokenizer_vars, csv_vars, heap_vars>>

RestoreNext ==
  \/ EncodeStatement
  \/ DecodeReturned
  \/ UnmaskReturned

SpecRestore == RestoreInit /\ [][RestoreNext]_vars

\* result after the first loop of decode, over the comment masks
DecodeComments(masked, m) ==
  ReplaceMasks(masked, CommentMasksIn(masked, 1), RevMapping(m))
\* result after the second loop, over the string literal masks
DecodeStrings(masked, m) ==
  ReplaceMasks(DecodeComments(masked, m),
               StringMasksIn(DecodeComments(masked, m), 1), RevMapping(m))

TokensOfType(types) == { Tokens[i].value : i \in { j \in DOMAIN Tokens : Tokens[j].type \in types } }

----------------------------------------------------------------------------
(* C23: decode restores comments, then string literals, then identifiers,  *)
(* and a later pass leaves alone what an earlier pass restored: a comment  *)
(* of the input found in the result after the comment pass, and a string   *)
(* literal found after the string pass, is still found in what decode      *)
(* returns, also when it holds text of the form of a placeholder.          *)
C23_PassIsolation ==
  op = "decode" =>
    /\ \A c \in TokensOfType({"COMMENT"}) :
         Contains(DecodeComments(masked_sql, mapping), c) =>
           /\ Contains(DecodeStrings(masked_sql, mapping), c)
           /\ Contains(restored, c)
    /\ \A s \in TokensOfType({"STRING"}) :
         Contains(DecodeStrings(masked_sql, mapping), s) => Contains(restored, s)

----------------------------------------------------------------------------
(* C24: where the statement holds no comment and no string literal, so     *)
(* that only identifier placeholders are restored, decode returns the      *)
(* statement: every identifier placeholder of the masked text, also one    *)
(* that follows a digit or another word character, is replaced by its own  *)
(* original, and none inside a longer placeholder.                         *)
C24_IdentifiersRestored ==
  (op = "decode" /\ TokensOfType({"COMMENT", "STRING"}) = {}) => restored = sql

----------------------------------------------------------------------------
(* C25: the comment pass of decode replaces every comment placeholder of   *)
(* the masked text by its own comment: after it the text is the masked     *)
(* text with the original in the place of each comment placeholder, also   *)
(* when the number of one placeholder begins that of another.              *)
CommentsPutBack ==
  Flatten([i \in DOMAIN Tokens |->
             IF Tokens[i].type = "COMMENT" THEN Tokens[i].value
             ELSE masked_tokens[i]])

C25_CommentsRestored ==
  op = "decode" => DecodeComments(masked_sql, mapping) = CommentsPutBack

----------------------------------------------------------------------------
(* C26: encode appends one piece per token, in order, and returns the      *)
(* pieces joined; the piece of a WHITESPACE, PUNCTUATION or OTHER token    *)
(* (a digit, a double quote) is the token, so that a piece differs from    *)
(* its token only for a COMMENT, a STRING or an IDENTIFIER that is not a   *)
(* keyword.                                                                *)
Verbatim == {"WHITESPACE", "PUNCTUATION", "OTHER"}

C26_StructureKept ==
  calls = 1 =>
    /\ Len(masked_tokens) = Len(Tokens)
    /\ masked_sql = Flatten(masked_tokens)
    /\ \A i \in DOMAIN Tokens :
         /\ Tokens[i].type \in Verbatim => masked_tokens[i] = Tokens[i].value
         /\ masked_tokens[i] # Tokens[i].value =>
              /\ Tokens[i].type \in {"COMMENT", "STRING", "IDENTIFIER"}
              /\ Tokens[i].type = "IDENTIFIER" => ~InKeywordTable(Tokens[i].value)

\* "a, : OTHER, IDENTIFIER, PUNCTUATION
C26_Witness ==
  /\ op = "encode"
  /\ existing = <<>>
  /\ sql = <<"\"", "a", ",">>
  /\ Len(masked_tokens) = 3
  /\ masked_sql = <<"\"", "m", "1", ",">>

----------------------------------------------------------------------------
(* C30: for what encode returned on a new SQLMasker, the SQLUnmasker       *)
(* constructed from the mapping restores the masked text to what           *)
(* SQLMasker.decode returns for it, also where a placeholder directly      *)
(* follows an alphanumeric character.                                      *)
C30_UnmaskIsDecode ==
  (unmasker_op = "unmask" /\ op = "decode") =>
    unmask_result = Decode(unmask_text, unmasker_mapping)
----------------------------------------------------------------------------
(* A SQLUnmasker that is given a second mapping with load_mapping before   *)
(* it is asked to unmask.                                                  *)

\* unmasker.load_mapping(file) for a file holding the mapping m
LoadMapping ==
  /\ unmasker_op = "init"
  /\ \E m \in UnmaskerMappings :
       /\ unmasker_mapping' = m
       /\ unmasker_rev_mapping' = RevMapping(m)
       /\ direct_replacements' =
            PrecomputeReplacements(direct_replacements, RevMapping(m))
  /\ unmasker_op' = "load"
  /\ UNCHANGED <<unmask_text, unmask_result>>
  /\ UNCHANGED <<masker_vars, tokenizer_vars, csv_vars, heap_vars>>

\* unmasker.unmask(t) after the load
UnmaskLoaded ==
  /\ unmasker_op = "load"
  /\ \E t \in Texts : UnmaskCall(t)
  /\ UNCHANGED <<masker_vars, tokenizer_vars, csv_vars, heap_vars>>

ReloadNext ==
  \/ LoadMapping
  \/ UnmaskLoaded

SpecReload == UnmaskInit /\ [][ReloadNext]_vars

\* self.direct_replacements of SQLUnmasker(m)
NewReplacements(m) ==
  IF m # <<>> THEN PrecomputeReplacements(<<>>, RevMapping(m)) ELSE <<>>

----------------------------------------------------------------------------
(* C29: after load_mapping the instance is as a SQLUnmasker constructed    *)
(* from the loaded mapping: its replacement table is the one such an       *)
(* instance has, and unmask returns what that instance returns.            *)
C29_LoadReplaces ==
  /\ unmasker_op = "load" =>
       direct_replacements = NewReplacements(unmasker_mapping)
  /\ unmasker_op = "unmask" =>
       unmask_result =
         Unmask(unmask_text,
                IF unmasker_mapping # <<>> THEN RevMapping(unmasker_mapping) ELSE <<>>,
                NewReplacements(unmasker_mapping))
----------------------------------------------------------------------------
(* Two SQLMasker instances and the dict objects they and their callers     *)
(* hold. A dict is an object of the heap, named by its reference (its      *)
(* index in heap): self._mapping, the mapping encode returns and the       *)
(* existing_mapping given to __init__ are references.                      *)

HeapStatements == { <<"a">>, <<"b">>, <<"'","x","'">> }

\* dict objects created in one run
MaxHeap == 4

\* the dict a reference names, {} for None
Deref(h, ref) == IF ref = 0 THEN <<>> ELSE h[ref]

\* __init__ with the copy left out: self._mapping = existing_mapping
NewMappingShared(h, existing_mapping) ==
  IF Deref(h, existing_mapping) # <<>>
  THEN [heap |-> h, mapping |-> existing_mapping]
  ELSE [heap |-> Append(h, <<>>), mapping |-> Len(h) + 1]

\* __init__: self._mapping = {} or existing_mapping.copy(), a new dict
\* either way: [heap, mapping]
NewMapping(h, existing_mapping) ==
  IF Deref(h, existing_mapping) # <<>>
  THEN [heap |-> Append(h, Deref(h, existing_mapping)), mapping |-> Len(h) + 1]
  ELSE [heap |-> Append(h, <<>>), mapping |-> Len(h) + 1]

\* encode returning a copy: return masked_sql, self._mapping.copy()
ReturnedCopy(h, ref) == [heap |-> Append(h, h[ref]), mapping |-> Len(h) + 1]

\* return masked_sql, self._mapping: [heap, mapping]
Returned(h, ref) == [heap |-> h, mapping |-> ref]

\* first = SQLMasker()
InstancesInit ==
  /\ Construct(<<>>)
  /\ NoUnmasker /\ NoTokenizer /\ NoCsv
  /\ heap = NewMapping(<<>>, 0).heap
  /\ engines =
       << [constructed |-> TRUE, counter |-> InitCounter(<<>>),
           mapping |-> NewMapping(<<>>, 0).mapping, epoch |-> 0,
           masked_sql |-> <<>>],
          NotConstructed >>
  /\ alone = << [counter |-> Constructed.counter, mapping |-> Constructed.mapping,
                masked_sql |-> <<>>],
               NoInstance >>
  /\ returned = <<>>
  /\ supplied = NoSupplied
  /\ heap_op = [name |-> "init", engine |-> 1, result |-> <<>>]

\* second = SQLMasker() or SQLMasker(mapping) for a mapping an encode call
\* on the first instance returned
ConstructSecond ==
  /\ ~engines[2].constructed
  /\ Len(heap) < MaxHeap
  /\ \E existing_mapping \in
          {0} \cup { returned[k].mapping : k \in DOMAIN returned } :
       LET n == NewMapping(heap, existing_mapping)
           entries == Deref(heap, existing_mapping)
       IN  /\ heap' = n.heap
           /\ engines' = [engines EXCEPT ![2] =
                [constructed |-> TRUE, counter |-> InitCounter(entries),
                 mapping |-> n.mapping, epoch |-> 0, masked_sql |-> <<>>]]
           /\ alone' = [alone EXCEPT ![2] =
                [counter |-> InitCounter(entries), mapping |-> InitMapping(entries),
                 masked_sql |-> <<>>]]
           /\ supplied' = [mapping |-> existing_mapping, entries |-> entries]
  /\ heap_op' = [name |-> "init", engine |-> 2, result |-> <<>>]
  /\ UNCHANGED returned
  /\ UNCHANGED <<masker_vars, unmasker_vars, tokenizer_vars, csv_vars>>

\* instance i: encode(s, reset_mapping). reset() binds self._mapping to a
\* new dict; the token loop writes into the dict self._mapping names
EncodeOnInstance ==
  /\ Len(returned) < MaxCalls
  /\ \E i \in DOMAIN engines, s \in HeapStatements, reset_mapping \in BOOLEAN :
       /\ engines[i].constructed
       /\ reset_mapping => Len(heap) < MaxHeap
       /\ LET e == engines[i]
              h0 == IF reset_mapping THEN Append(heap, <<>>) ELSE heap
              ref == IF reset_mapping THEN Len(heap) + 1 ELSE e.mapping
              e0 == IF reset_mapping
                    THEN ResetEngine([counter |-> e.counter, mapping |-> h0[ref]])
                    ELSE [counter |-> e.counter, mapping |-> h0[ref]]
              r == EncodeTokens(e0, Tokenize(s))
              h1 == [h0 EXCEPT ![ref] = r.e.mapping]
              ret == Returned(h1, ref)
              epoch == IF reset_mapping THEN e.epoch + 1 ELSE e.epoch
          IN  /\ heap' = ret.heap
              /\ engines' = [engines EXCEPT ![i] =
                   [constructed |-> TRUE, counter |-> r.e.counter, mapping |-> ref,
                    epoch |-> epoch, masked_sql |-> Join(r.masked_tokens, <<>>)]]
              /\ returned' = Append(returned,
                   [engine |-> i, epoch |-> epoch,
                    masked_sql |-> Join(r.masked_tokens, <<>>),
                    mapping |-> ret.mapping, entries |-> r.e.mapping])
              /\ alone' = [alone EXCEPT ![i] =
                   EncodeOn(IF reset_mapping THEN Constructed ELSE alone[i], s)]
              /\ heap_op' = [name |-> IF reset_mapping THEN "encode_reset" ELSE "encode",
                             engine |-> i, result |-> <<>>]
  /\ UNCHANGED supplied
  /\ UNCHANGED <<masker_vars, unmasker_vars, tokenizer_vars, csv_vars>>

\* instance i: reset()
ResetInstance ==
  /\ Len(heap) < MaxHeap
  /\ \E i \in DOMAIN engines :
       /\ engines[i].constructed
       /\ heap' = Append(heap, ResetEngine(engines[i]).mapping)
       /\ engines' = [engines EXCEPT ![i] =
            [constructed |-> TRUE, counter |-> ResetEngine(engines[i]).counter,
             mapping |-> Len(heap) + 1, epoch |-> engines[i].epoch + 1,
             masked_sql |-> engines[i].masked_sql]]
       /\ alone' = [alone EXCEPT ![i] =
            [counter |-> Constructed.counter, mapping |-> Constructed.mapping,
             masked_sql |-> alone[i].masked_sql]]
       /\ heap_op' = [name |-> "reset", engine |-> i, result |-> <<>>]
  /\ UNCHANGED <<returned, supplied>>
  /\ UNCHANGED <<masker_vars, unmasker_vars, tokenizer_vars, csv_vars>>

\* instance i: decode(masked_sql, mapping) on what an encode call returned;
\* decode reads mapping.items() and writes only its locals
DecodeOnInstance ==
  /\ heap_op.name # "decode"
  /\ \E i \in DOMAIN engines, k \in DOMAIN returned :
       /\ engines[i].constructed
       /\ heap_op' = [name |-> "decode", engine |-> i,
                      result |-> Decode(returned[k].masked_sql,
                                        heap[returned[k].mapping])]
  /\ UNCHANGED <<heap, engines, alone, returned, supplied>>
  /\ UNCHANGED <<masker_vars, unmasker_vars, tokenizer_vars, csv_vars>>

InstancesNext ==
  \/ ConstructSecond
  \/ EncodeOnInstance
  \/ ResetInstance
  \/ DecodeOnInstance

SpecInstances == InstancesInit /\ [][InstancesNext]_vars

----------------------------------------------------------------------------
(* C27: the two instances share no state, also when the second is          *)
(* constructed from a mapping the first returned: whatever the order of    *)
(* the calls, each instance holds the counter and the mapping, and has     *)
(* returned the text, an instance given only its own calls holds and       *)
(* returns; and no call on the second instance changes the dict that was   *)
(* given to its constructor.                                               *)
AsAlone(i) ==
  /\ engines[i].counter = alone[i].counter
  /\ heap[engines[i].mapping] = alone[i].mapping
  /\ engines[i].masked_sql = alone[i].masked_sql

C27_Isolated ==
  /\ [](\A i \in DOMAIN engines : engines[i].constructed => AsAlone(i))
  /\ [][ heap_op'.engine = 2 =>
           Deref(heap', supplied'.mapping) = Deref(heap, supplied'.mapping) ]_vars

\* first.encode("a"), second = SQLMasker(mapping), second.encode(...) with a
\* new entry
C27_Witness ==
  /\ engines[2].constructed
  /\ supplied.mapping # 0
  /\ Len(supplied.entries) = 1
  /\ heap_op = [name |-> "encode", engine |-> 2, result |-> <<>>]
  /\ Len(heap[engines[2].mapping]) = 2
  /\ Len(heap[engines[1].mapping]) = 1

----------------------------------------------------------------------------
(* C28: encode returns the dict self._mapping names: every mapping an      *)
(* encode call returned holds what the last encode call before the next    *)
(* reset of the instance left in it, so the entries of later calls are     *)
(* seen through it; reset() binds the instance to a new empty dict and     *)
(* leaves the dicts returned before as they are; decode changes no dict    *)
(* and no instance.                                                        *)
LastOfEpoch(k) ==
  returned[CHOOSE n \in DOMAIN returned :
             /\ returned[n].engine = returned[k].engine
             /\ returned[n].epoch = returned[k].epoch
             /\ \A j \in DOMAIN returned :
                  (returned[j].engine = returned[k].engine
                     /\ returned[j].epoch = returned[k].epoch) => j <= n]

C28_LiveMapping ==
  /\ [](\A k \in DOMAIN returned :
          /\ heap[returned[k].mapping] = LastOfEpoch(k).entries
          /\ Extends(heap[returned[k].mapping], returned[k].entries)
          /\ returned[k].epoch = engines[returned[k].engine].epoch =>
               returned[k].mapping = engines[returned[k].engine].mapping)
  /\ [][ heap_op'.name = "reset" =>
           /\ engines'[heap_op'.engine].mapping
                # engines[heap_op'.engine].mapping
           /\ heap'[engines'[heap_op'.engine].mapping] = <<>>
           /\ \A k \in DOMAIN returned :
                heap'[returned[k].mapping] = heap[returned[k].mapping] ]_vars
  /\ [][ heap_op'.name = "decode" => (heap' = heap /\ engines' = engines) ]_vars

\* two encode calls on one instance without a reset, the second adding an
\* entry that is seen through the mapping the first returned
C28_Witness ==
  /\ Len(returned) = 2
  /\ returned[1].engine = returned[2].engine
  /\ returned[1].epoch = returned[2].epoch
  /\ Len(returned[1].entries) = 1
  /\ Len(heap[returned[1].mapping]) = 2
====
